---------------------------- MODULE Spec2Model ----------------------------
(***************************************************************************)
(* A model of the AMDGPU disassembler                                      *)
(* (llvm/lib/Target/AMDGPU/Disassembler/AMDGPUDisassembler.cpp):           *)
(*   - getInstruction: the cascade over the decoder tables, the post-decode*)
(*     normalizer passes and the computation of Size;                       *)
(*   - the operand decoders and the pending-literal state;                  *)
(*   - decodeKernelDescriptor and its per-field decoders.                   *)
(*                                                                         *)
(* The generated decoder tables, the instruction metadata (MCInstrDesc,     *)
(* named operand indices, MIMG info) and the subtarget features are inputs *)
(* of the code; they are modelled as data the code queries.                 *)
(***************************************************************************)
EXTENDS Integers, Sequences, FiniteSets, TLC

(***************************************************************************)
(* 64-bit immediates are kept as four 16-bit limbs, least significant      *)
(* first, so that 32- and 64-bit patterns keep their width.                *)
(***************************************************************************)
Limb == 65536

I64(n) == <<n, 0, 0, 0>>

NegI64(n) == <<Limb - n, Limb - 1, Limb - 1, Limb - 1>>

\* a uint32_t as two limbs
\* uint32_t -> int64_t (zero extension), as MCOperand::createImm(Literal) does
ZExt32(w) == <<w[1], w[2], 0, 0>>

\* uint64_t Literal64 <<= 32
Shl32(w) == <<0, 0, w[1], w[2]>>

(***************************************************************************)
(* MCOperand: a register (class, index), an immediate, or the invalid      *)
(* operand MCOperand().                                                    *)
(***************************************************************************)
RegOp(rc, idx) == [k |-> "reg", rc |-> rc, v |-> <<idx>>]

ImmOp(limbs) == [k |-> "imm", rc |-> "", v |-> limbs]

InvalidOp == [k |-> "inv", rc |-> "", v |-> <<>>]

isValid(op) == op.k # "inv"

isReg(op) == op.k = "reg"

isImm(op) == op.k = "imm"

\* the low bits of an immediate operand that holds a small field value
getImmLow(op) == IF op.k = "imm" THEN op.v[1] ELSE 0


(***************************************************************************)
(* Subtargets: the feature sets the code queries through STI.  One decoder *)
(* instance is built for one subtarget (constructor, lines 47-54).         *)
(***************************************************************************)
Targets ==
  { [name |-> "gfx803",
     feats |-> {"GCN3Encoding", "VolcanicIslands", "UnpackedD16VMem", "GDS",
                "WavefrontSize64"}],
    [name |-> "gfx900",
     feats |-> {"GCN3Encoding", "GFX9", "GDS", "WavefrontSize64"}],
    [name |-> "gfx940",
     feats |-> {"GCN3Encoding", "GFX9", "GFX90AInsts", "GFX940Insts",
                "FmaMixInsts", "ArchitectedFlatScratch", "KernargPreload",
                "WavefrontSize64"}],
    [name |-> "gfx1030",
     feats |-> {"GFX10", "GFX10_BEncoding", "NSAEncoding", "G16",
                "VOP3Literal", "FmaMixInsts", "GDS", "WavefrontSize32"}],
    [name |-> "gfx1100",
     feats |-> {"GFX11", "GFX11Insts", "GFX10_BEncoding", "NSAEncoding",
                "PartialNSAEncoding", "G16", "VOP3Literal", "VOPD",
                "FmaMixInsts", "GDS", "ArchitectedFlatScratch",
                "WavefrontSize32"}],
    [name |-> "gfx1200",
     feats |-> {"GFX12", "GFX11Insts", "GFX10_BEncoding", "NSAEncoding",
                "PartialNSAEncoding", "G16",
                "VOP3Literal", "VOPD", "FmaMixInsts",
                "ArchitectedFlatScratch", "WavefrontSize32"}] }

VARIABLES
  STI,              \* the subtarget of this decoder instance
  pc,               \* position of the current top-level call
  Bytes_,           \* getInstruction: the byte window passed in
  Tables,           \* what the generated tables answer for this window
  MaxInstBytesNum,  \* getInstruction local
  Bytes,            \* mutable member: offset of the unread rest of the window
  HasLiteral,       \* mutable member
  Literal,          \* mutable member (uint32_t)
  Literal64,        \* mutable member (uint64_t)
  MI,               \* the MCInst being built / returned
  Res,              \* getInstruction local, then its return value
  IsSDWA,           \* getInstruction local
  Size,             \* out-parameter
  trace,            \* history: the tables the call tried
  passes,           \* history: the fix-ups of lines 705-816 that ran
  snaps,            \* history: the instruction each of them found
  convs,            \* history: the DPP conversions of the cascade
  litEntry,         \* history: HasLiteral when the call began
  Symbol,           \* onSymbolStart: the symbol (type and name)
  kd,               \* onSymbolStart: the bytes at the symbol (set bits)
  kdLen,            \* onSymbolStart: Bytes.size()
  KdAddress,        \* onSymbolStart: address of the symbol
  kdSize,           \* onSymbolStart: the Size out-parameter
  CodeObjectVersion, \* AMDGPU::getAmdhsaCodeObjectVersion()
  kdCalls,          \* number of onSymbolStart calls made on this decoder
  EnableWavefrontSize32, \* mutable member (std::optional<bool>)
  kdStatus,         \* return value of onSymbolStart
  kdOut,            \* text written to outs()
  kdTrace,          \* history: cursor offsets visited, lines buffered
  kdEntry,          \* history: EnableWavefrontSize32 when the call began
  opBuild,          \* what this build does at llvm_unreachable
  opSt,             \* the members while a generated decoder runs (see DState)
  opArgs,           \* the operand decoder called last and its arguments
  opRet,            \* the MCOperand it returned
  opBefore,         \* history: the members when that call began
  opCalls           \* operand decoder calls made for this instruction

vars == <<STI, pc, Bytes_, Tables, MaxInstBytesNum, Bytes, HasLiteral, Literal,
          Literal64, MI, Res, IsSDWA, Size, trace, passes, snaps, convs,
          litEntry,
          Symbol, kd, kdLen,
          KdAddress, kdSize, CodeObjectVersion, kdCalls,
          EnableWavefrontSize32, kdStatus, kdOut, kdTrace, kdEntry, opBuild,
          opSt, opArgs, opRet, opBefore, opCalls>>

instVars == <<Bytes_, Tables, MaxInstBytesNum, Bytes, HasLiteral, Literal,
              Literal64, MI, Res, IsSDWA, Size, trace, passes, snaps,
              convs, litEntry>>

kdVars == <<Symbol, kd, kdLen, KdAddress, kdSize, CodeObjectVersion, kdCalls,
            EnableWavefrontSize32, kdStatus, kdOut, kdTrace, kdEntry>>

hasFeature(f) == f \in STI.feats

isVI == hasFeature("VolcanicIslands")

isGFX9 == hasFeature("GFX9")

isGFX90A == hasFeature("GFX90AInsts")

isGFX10 == hasFeature("GFX10")

isGFX11 == hasFeature("GFX11")

isGFX12Plus == hasFeature("GFX12")

isGFX11Plus == isGFX11 \/ isGFX12Plus

isGFX10Plus == isGFX10 \/ isGFX11Plus

isGFX9Plus == isGFX9 \/ isGFX10Plus

hasArchitectedFlatScratch == hasFeature("ArchitectedFlatScratch")

hasKernargPreload == hasFeature("KernargPreload")

\* MAI.getMaxInstLength(&STI), read once by the constructor (line 50)
TargetMaxInstBytes ==
  IF hasFeature("NSAEncoding") THEN 20
  ELSE IF hasFeature("VOP3Literal") THEN 12 ELSE 8

\* a minimum that answers its second argument
C1_MinIsSecond(a, b) == b

Min(a, b) == IF a < b THEN a ELSE b

Max(a, b) == IF a < b THEN b ELSE a

(***************************************************************************)
(* The byte window.  Its content is one of a few patterns; the bytes of    *)
(* the main encoding are interpreted by the tables (see Tables), the bytes *)
(* behind it are read by the code as a literal word or as NSA addresses.   *)
(***************************************************************************)
BytePatterns ==
  {<<1, 1>>, <<255, 0>>, <<233, 0>>, <<2, 7>>, <<243, 2>>, <<189, 11>>,
   <<246, 1>>}

\* byte i of a window whose pattern is <<first byte, step>>
ByteAt(pat, i) == (pat[1] + pat[2] * i) % 256

\* Bytes.size(): Bytes is a slice of the first max bytes of the window
BytesSize(st) == st.max - st.off

\* eatBytes<uint32_t>(Bytes): the little-endian word at the read offset
WordAt(pat, off) ==
  <<ByteAt(pat, off) + 256 * ByteAt(pat, off + 1),
    ByteAt(pat, off + 2) + 256 * ByteAt(pat, off + 3)>>

(***************************************************************************)
(* AMDGPU::EncValues (SIDefines.h): the ranges of the 9-bit source field.  *)
(***************************************************************************)
EncValues ==
  [SGPR_MIN |-> 0,
   SGPR_MAX_SI |-> 101,
   SGPR_MAX_GFX10 |-> 105,
   TTMP_VI_MIN |-> 112,
   TTMP_VI_MAX |-> 123,
   TTMP_GFX9PLUS_MIN |-> 108,
   TTMP_GFX9PLUS_MAX |-> 123,
   INLINE_INTEGER_C_MIN |-> 128,
   INLINE_INTEGER_C_POSITIVE_MAX |-> 192,
   INLINE_INTEGER_C_MAX |-> 208,
   INLINE_FLOATING_C_MIN |-> 240,
   INLINE_FLOATING_C_MAX |-> 248,
   LITERAL_CONST |-> 255,
   VGPR_MIN |-> 256,
   VGPR_MAX |-> 511]

\* #define SGPR_MAX (lines 41-43)
SGPR_MAX == IF isGFX10Plus THEN EncValues.SGPR_MAX_GFX10 ELSE EncValues.SGPR_MAX_SI

(***************************************************************************)
(* Register classes.  A VGPR/AGPR tuple class of n dwords holds the tuples *)
(* starting at every register (256 - n + 1 of them); SGPR and TTMP tuples  *)
(* are aligned.  NumRegs is MCRegisterClass::getNumRegs().                 *)
(***************************************************************************)
ClassDwords(rc) ==
  CASE rc \in {"VGPR_32", "AGPR_32", "SGPR_32", "TTMP_32"} -> 1
    [] rc \in {"VReg_64", "AReg_64", "SGPR_64", "TTMP_64"} -> 2
    [] rc \in {"VReg_96", "AReg_96", "SGPR_96", "TTMP_96"} -> 3
    [] rc \in {"VReg_128", "AReg_128", "SGPR_128", "TTMP_128"} -> 4
    [] rc \in {"VReg_160", "AReg_160", "SGPR_160"} -> 5
    [] rc = "VReg_192" -> 6
    [] rc = "VReg_224" -> 7
    [] rc \in {"VReg_256", "AReg_256", "SGPR_256", "TTMP_256"} -> 8
    [] rc \in {"VReg_288", "AReg_288", "SGPR_288", "TTMP_288"} -> 9
    [] rc \in {"VReg_320", "AReg_320", "SGPR_320", "TTMP_320"} -> 10
    [] rc \in {"VReg_352", "AReg_352", "SGPR_352", "TTMP_352"} -> 11
    [] rc \in {"VReg_384", "AReg_384", "SGPR_384", "TTMP_384"} -> 12
    [] rc \in {"VReg_512", "AReg_512", "SGPR_512", "TTMP_512"} -> 16
    [] rc \in {"VReg_1024", "AReg_1024"} -> 32
    [] OTHER -> 1

IsVectorClass(rc) ==
  rc \in {"VGPR_32", "VReg_64", "VReg_96", "VReg_128", "VReg_160", "VReg_192",
          "VReg_224", "VReg_256",
          "VReg_288", "VReg_320", "VReg_352", "VReg_384", "VReg_512",
          "VReg_1024", "AGPR_32", "AReg_64", "AReg_96", "AReg_128",
          "AReg_160", "AReg_256", "AReg_288", "AReg_320", "AReg_352",
          "AReg_384", "AReg_512", "AReg_1024"}

NumRegs(rc) ==
  CASE IsVectorClass(rc) -> 256 - ClassDwords(rc) + 1
    [] rc = "VGPR_16" -> 512
    [] rc = "SGPR_32" -> 106
    [] rc = "SGPR_64" -> 53
    [] rc = "TTMP_32" -> 16
    [] rc = "TTMP_64" -> 8
    [] rc \in {"TTMP_96", "TTMP_128"} -> 4
    [] rc \in {"TTMP_256", "TTMP_288", "TTMP_320", "TTMP_352", "TTMP_384"} -> 3
    [] rc = "TTMP_512" -> 1
    [] OTHER -> (106 - ClassDwords(rc)) \div 4 + 1   \* aligned SGPR tuples

(***************************************************************************)
(* The mutable decoder members an operand decoder may touch:               *)
(*   off     read offset of Bytes          hasLit  HasLiteral              *)
(*   lit     Literal                       lit64   Literal64               *)
(*   cs      what was written to *CommentStream                            *)
(*   pat     content of the window         max     MaxInstBytesNum         *)
(***************************************************************************)
DState(off, hasLit, lit, lit64, pat, max) ==
  [off |-> off, hasLit |-> hasLit, lit |-> lit, lit64 |-> lit64, cs |-> <<>>,
   pat |-> pat, max |-> max]

\* a decoder's result: the operand and the members after the call
Ret(op, st) == [op |-> op, st |-> st]

\* errOperand (lines 1216-1224)
errOperand(V, ErrMsg, st) ==
  Ret(InvalidOp, [st EXCEPT !.cs = Append(@, <<"Error", ErrMsg, V>>)])

\* createRegOperand(unsigned RegId) (lines 1226-1229): a named register
createRegOperandId(RegId) == RegOp("SPECIAL", RegId)

\* a register operand that is refused while a literal is pending
C14_RefusedWhilePending(RegClassID, Val, st) ==
  IF st.hasLit \/ Val >= NumRegs(RegClassID)
  THEN errOperand(Val, "unknown register", st)
  ELSE Ret(RegOp(RegClassID, Val), st)

\* createRegOperand(unsigned RegClassID, unsigned Val) (lines 1231-1239)
createRegOperand(RegClassID, Val, st) ==
  IF Val >= NumRegs(RegClassID)
  THEN errOperand(Val, "unknown register", st)
  ELSE Ret(RegOp(RegClassID, Val), st)

\* the named registers returned by decodeSpecialReg32/64 and convertSDWAInst
SpecialRegs ==
  <<"FLAT_SCR_LO", "FLAT_SCR_HI", "XNACK_MASK_LO", "XNACK_MASK_HI", "VCC_LO",
    "VCC_HI", "TBA_LO", "TBA_HI", "TMA_LO", "TMA_HI", "SGPR_NULL", "M0",
    "EXEC_LO", "EXEC_HI", "SRC_SHARED_BASE_LO", "SRC_SHARED_LIMIT_LO",
    "SRC_PRIVATE_BASE_LO", "SRC_PRIVATE_LIMIT_LO", "SRC_POPS_EXITING_WAVE_ID",
    "SRC_VCCZ", "SRC_EXECZ", "SRC_SCC", "LDS_DIRECT", "FLAT_SCR", "XNACK_MASK",
    "VCC", "TBA", "TMA", "EXEC", "SRC_SHARED_BASE", "SRC_SHARED_LIMIT",
    "SRC_PRIVATE_BASE", "SRC_PRIVATE_LIMIT">>

RegId(name) == CHOOSE i \in 1..Len(SpecialRegs) : SpecialRegs[i] = name

\* a scalar register taken at the raw value, whatever the class
C19_NoShift(SRegClassID) == 0

\* createSRegOperand (lines 1241-1289).  A class outside the switch reaches
\* llvm_unreachable; no instruction of this model decodes such a class.
SRegShift(SRegClassID) ==
  CASE SRegClassID \in {"SGPR_32", "TTMP_32"} -> 0
    [] SRegClassID \in {"SGPR_64", "TTMP_64"} -> 1
    [] OTHER -> 2

createSRegOperand(SRegClassID, Val, st) ==
  LET shift == SRegShift(SRegClassID)
      st1 == IF Val % (2 ^ shift) # 0
             THEN [st EXCEPT !.cs =
                      Append(@, <<"Warning", "scalar reg isn't aligned", Val>>)]
             ELSE st
  IN  createRegOperand(SRegClassID, Val \div (2 ^ shift), st1)

\* createVGPR16Operand (lines 1291-1295)
createVGPR16Operand(RegIdx, IsHi, st) ==
  createRegOperand("VGPR_16", RegIdx * 2 + (IF IsHi THEN 1 ELSE 0), st)

\* a mandatory literal that replaces the pending literal without comparing
C3_OverwriteLiteral(Val, st) ==
  Ret(ImmOp(ZExt32(Val)), [st EXCEPT !.hasLit = TRUE, !.lit = Val])

\* decodeMandatoryLiteralConstant (lines 1297-1310); Val is a uint32 field
decodeMandatoryLiteralConstant(Val, st) ==
  IF st.hasLit /\ st.lit # Val
  THEN errOperand(Val, "More than one unique literal is illegal", st)
  ELSE Ret(ImmOp(ZExt32(Val)), [st EXCEPT !.hasLit = TRUE, !.lit = Val])

\* a literal operand answered from the stored Literal without a look at
\* HasLiteral
C15_StaleLiteral(ExtendFP64, st) == Ret(ImmOp(ZExt32(st.lit)), st)

\* a literal read that does not look at HasLiteral
C29_ReadAgain(ExtendFP64, st) ==
  IF BytesSize(st) < 4
  THEN errOperand(0, "cannot read literal, inst bytes left", st)
  ELSE LET w == WordAt(st.pat, st.off)
           l64 == IF ExtendFP64 THEN Shl32(w) ELSE ZExt32(w)
       IN  Ret(ImmOp(IF ExtendFP64 THEN l64 ELSE ZExt32(w)),
               [st EXCEPT !.off = @ + 4, !.hasLit = TRUE, !.lit = w,
                          !.lit64 = l64])

\* decodeLiteralConstant (lines 1312-1327)
decodeLiteralConstant(ExtendFP64, st) ==
  IF ~st.hasLit
  THEN IF BytesSize(st) < 4
       THEN errOperand(0, "cannot read literal, inst bytes left", st)
       ELSE LET w == WordAt(st.pat, st.off)
                l64 == IF ExtendFP64 THEN Shl32(w) ELSE ZExt32(w)
            IN  Ret(ImmOp(IF ExtendFP64 THEN l64 ELSE ZExt32(w)),
                    [st EXCEPT !.off = @ + 4, !.hasLit = TRUE, !.lit = w,
                               !.lit64 = l64])
  ELSE Ret(ImmOp(IF ExtendFP64 THEN st.lit64 ELSE ZExt32(st.lit)), st)

\* an inline integer without the negative half
C20_NoSplit(Imm) == ImmOp(I64(Imm - EncValues.INLINE_INTEGER_C_MIN))

\* decodeIntImmed (lines 1329-1337)
decodeIntImmed(Imm) ==
  IF Imm <= EncValues.INLINE_INTEGER_C_POSITIVE_MAX
  THEN ImmOp(I64(Imm - EncValues.INLINE_INTEGER_C_MIN))
  ELSE ImmOp(NegI64(Imm - EncValues.INLINE_INTEGER_C_POSITIVE_MAX))

\* getInlineImmVal32 (lines 1339-1362): bit patterns of the floats, as limbs
getInlineImmVal32(Imm) ==
  CASE Imm = 240 -> <<0, 16128, 0, 0>>      \* 0x3F000000  0.5f
    [] Imm = 241 -> <<0, 48896, 0, 0>>      \* 0xBF000000 -0.5f
    [] Imm = 242 -> <<0, 16256, 0, 0>>      \* 0x3F800000  1.0f
    [] Imm = 243 -> <<0, 49024, 0, 0>>      \* 0xBF800000 -1.0f
    [] Imm = 244 -> <<0, 16384, 0, 0>>      \* 0x40000000  2.0f
    [] Imm = 245 -> <<0, 49152, 0, 0>>      \* 0xC0000000 -2.0f
    [] Imm = 246 -> <<0, 16512, 0, 0>>      \* 0x40800000  4.0f
    [] Imm = 247 -> <<0, 49280, 0, 0>>      \* 0xC0800000 -4.0f
    [] Imm = 248 -> <<63875, 15906, 0, 0>>  \* 0x3e22f983

\* getInlineImmVal64 (lines 1364-1387)
getInlineImmVal64(Imm) ==
  CASE Imm = 240 -> <<0, 0, 0, 16352>>      \* 0x3FE0000000000000
    [] Imm = 241 -> <<0, 0, 0, 49120>>      \* 0xBFE0000000000000
    [] Imm = 242 -> <<0, 0, 0, 16368>>      \* 0x3FF0000000000000
    [] Imm = 243 -> <<0, 0, 0, 49136>>      \* 0xBFF0000000000000
    [] Imm = 244 -> <<0, 0, 0, 16384>>      \* 0x4000000000000000
    [] Imm = 245 -> <<0, 0, 0, 49152>>      \* 0xC000000000000000
    [] Imm = 246 -> <<0, 0, 0, 16400>>      \* 0x4010000000000000
    [] Imm = 247 -> <<0, 0, 0, 49168>>      \* 0xC010000000000000
    [] Imm = 248 -> <<51330, 28105, 24368, 16324>> \* 0x3fc45f306dc9c882

\* getInlineImmVal16 (lines 1389-1412)
getInlineImmVal16(Imm) ==
  CASE Imm = 240 -> I64(14336)   \* 0x3800
    [] Imm = 241 -> I64(47104)   \* 0xB800
    [] Imm = 242 -> I64(15360)   \* 0x3C00
    [] Imm = 243 -> I64(48128)   \* 0xBC00
    [] Imm = 244 -> I64(16384)   \* 0x4000
    [] Imm = 245 -> I64(49152)   \* 0xC000
    [] Imm = 246 -> I64(17408)   \* 0x4400
    [] Imm = 247 -> I64(50176)   \* 0xC400
    [] Imm = 248 -> I64(12568)   \* 0x3118

\* a decodeFPImmed that returns the single precision pattern whatever the
\* immediate width
C21_Always32(ImmWidth, Imm) == ImmOp(getInlineImmVal32(Imm))

\* decodeFPImmed (lines 1414-1433)
decodeFPImmed(ImmWidth, Imm) ==
  CASE ImmWidth \in {0, 32} -> ImmOp(getInlineImmVal32(Imm))
    [] ImmWidth = 64 -> ImmOp(getInlineImmVal64(Imm))
    [] ImmWidth = 16 -> ImmOp(getInlineImmVal16(Imm))

\* getVgprClassId (lines 1435-1458)
getVgprClassId(Width) ==
  CASE Width \in {"OPW64", "OPWV232"} -> "VReg_64"
    [] Width = "OPW96" -> "VReg_96"
    [] Width = "OPW128" -> "VReg_128"
    [] Width = "OPW160" -> "VReg_160"
    [] Width = "OPW256" -> "VReg_256"
    [] Width = "OPW288" -> "VReg_288"
    [] Width = "OPW320" -> "VReg_320"
    [] Width = "OPW352" -> "VReg_352"
    [] Width = "OPW384" -> "VReg_384"
    [] Width = "OPW512" -> "VReg_512"
    [] Width = "OPW1024" -> "VReg_1024"
    [] OTHER -> "VGPR_32"

\* getAgprClassId (lines 1460-1483)
getAgprClassId(Width) ==
  CASE Width \in {"OPW64", "OPWV232"} -> "AReg_64"
    [] Width = "OPW96" -> "AReg_96"
    [] Width = "OPW128" -> "AReg_128"
    [] Width = "OPW160" -> "AReg_160"
    [] Width = "OPW256" -> "AReg_256"
    [] Width = "OPW288" -> "AReg_288"
    [] Width = "OPW320" -> "AReg_320"
    [] Width = "OPW352" -> "AReg_352"
    [] Width = "OPW384" -> "AReg_384"
    [] Width = "OPW512" -> "AReg_512"
    [] Width = "OPW1024" -> "AReg_1024"
    [] OTHER -> "AGPR_32"

\* getSgprClassId (lines 1486-1508)
getSgprClassId(Width) ==
  CASE Width \in {"OPW64", "OPWV232"} -> "SGPR_64"
    [] Width = "OPW96" -> "SGPR_96"
    [] Width = "OPW128" -> "SGPR_128"
    [] Width = "OPW160" -> "SGPR_160"
    [] Width = "OPW256" -> "SGPR_256"
    [] Width = "OPW288" -> "SGPR_288"
    [] Width = "OPW320" -> "SGPR_320"
    [] Width = "OPW352" -> "SGPR_352"
    [] Width = "OPW384" -> "SGPR_384"
    [] Width = "OPW512" -> "SGPR_512"
    [] OTHER -> "SGPR_32"

\* getTtmpClassId (lines 1510-1530)
getTtmpClassId(Width) ==
  CASE Width \in {"OPW64", "OPWV232"} -> "TTMP_64"
    [] Width = "OPW128" -> "TTMP_128"
    [] Width = "OPW256" -> "TTMP_256"
    [] Width = "OPW288" -> "TTMP_288"
    [] Width = "OPW320" -> "TTMP_320"
    [] Width = "OPW352" -> "TTMP_352"
    [] Width = "OPW384" -> "TTMP_384"
    [] Width = "OPW512" -> "TTMP_512"
    [] OTHER -> "TTMP_32"

\* getTTmpIdx (lines 1532-1539)
getTTmpIdx(Val) ==
  LET TTmpMin == IF isGFX9Plus THEN EncValues.TTMP_GFX9PLUS_MIN ELSE EncValues.TTMP_VI_MIN
      TTmpMax == IF isGFX9Plus THEN EncValues.TTMP_GFX9PLUS_MAX ELSE EncValues.TTMP_VI_MAX
  IN  IF TTmpMin <= Val /\ Val <= TTmpMax THEN Val - TTmpMin ELSE -1

\* decodeSpecialReg32 (lines 1621-1655)
decodeSpecialReg32(Val, st) ==
  LET R(n) == Ret(createRegOperandId(RegId(n)), st)
  IN  CASE Val = 102 -> R("FLAT_SCR_LO")
        [] Val = 103 -> R("FLAT_SCR_HI")
        [] Val = 104 -> R("XNACK_MASK_LO")
        [] Val = 105 -> R("XNACK_MASK_HI")
        [] Val = 106 -> R("VCC_LO")
        [] Val = 107 -> R("VCC_HI")
        [] Val = 108 -> R("TBA_LO")
        [] Val = 109 -> R("TBA_HI")
        [] Val = 110 -> R("TMA_LO")
        [] Val = 111 -> R("TMA_HI")
        [] Val = 124 -> IF isGFX11Plus THEN R("SGPR_NULL") ELSE R("M0")
        [] Val = 125 -> IF isGFX11Plus THEN R("M0") ELSE R("SGPR_NULL")
        [] Val = 126 -> R("EXEC_LO")
        [] Val = 127 -> R("EXEC_HI")
        [] Val = 235 -> R("SRC_SHARED_BASE_LO")
        [] Val = 236 -> R("SRC_SHARED_LIMIT_LO")
        [] Val = 237 -> R("SRC_PRIVATE_BASE_LO")
        [] Val = 238 -> R("SRC_PRIVATE_LIMIT_LO")
        [] Val = 239 -> R("SRC_POPS_EXITING_WAVE_ID")
        [] Val = 251 -> R("SRC_VCCZ")
        [] Val = 252 -> R("SRC_EXECZ")
        [] Val = 253 -> R("SRC_SCC")
        [] Val = 254 -> R("LDS_DIRECT")
        [] OTHER -> errOperand(Val, "unknown operand encoding", st)

\* decodeSpecialReg64 (lines 1657-1686)
decodeSpecialReg64(Val, st) ==
  LET R(n) == Ret(createRegOperandId(RegId(n)), st)
  IN  CASE Val = 102 -> R("FLAT_SCR")
        [] Val = 104 -> R("XNACK_MASK")
        [] Val = 106 -> R("VCC")
        [] Val = 108 -> R("TBA")
        [] Val = 110 -> R("TMA")
        [] Val = 124 /\ isGFX11Plus -> R("SGPR_NULL")
        [] Val = 125 /\ ~isGFX11Plus -> R("SGPR_NULL")
        [] Val = 126 -> R("EXEC")
        [] Val = 235 -> R("SRC_SHARED_BASE")
        [] Val = 236 -> R("SRC_SHARED_LIMIT")
        [] Val = 237 -> R("SRC_PRIVATE_BASE")
        [] Val = 238 -> R("SRC_PRIVATE_LIMIT")
        [] Val = 239 -> R("SRC_POPS_EXITING_WAVE_ID")
        [] Val = 251 -> R("SRC_VCCZ")
        [] Val = 252 -> R("SRC_EXECZ")
        [] Val = 253 -> R("SRC_SCC")
        [] OTHER -> errOperand(Val, "unknown operand encoding", st)

\* the operand left by the llvm_unreachable default of decodeNonVGPRSrcOp
UnreachableOp == [k |-> "unreachable", rc |-> "", v |-> <<>>]

\* decodeNonVGPRSrcOp (lines 1559-1605)
decodeNonVGPRSrcOp(Width, Val, MandatoryLiteral, ImmWidth, IsFP, st) ==
  IF Val <= SGPR_MAX
  THEN createSRegOperand(getSgprClassId(Width), Val - EncValues.SGPR_MIN, st)
  ELSE IF getTTmpIdx(Val) >= 0
  THEN createSRegOperand(getTtmpClassId(Width), getTTmpIdx(Val), st)
  ELSE IF EncValues.INLINE_INTEGER_C_MIN <= Val /\ Val <= EncValues.INLINE_INTEGER_C_MAX
  THEN Ret(decodeIntImmed(Val), st)
  ELSE IF EncValues.INLINE_FLOATING_C_MIN <= Val /\ Val <= EncValues.INLINE_FLOATING_C_MAX
  THEN Ret(decodeFPImmed(ImmWidth, Val), st)
  ELSE IF Val = EncValues.LITERAL_CONST
  THEN IF MandatoryLiteral
       THEN Ret(ImmOp(I64(EncValues.LITERAL_CONST)), st)
       ELSE decodeLiteralConstant(IsFP /\ ImmWidth = 64, st)
  ELSE IF Width \in {"OPW32", "OPW16", "OPWV216"}
  THEN decodeSpecialReg32(Val, st)
  ELSE IF Width \in {"OPW64", "OPWV232"}
  THEN decodeSpecialReg64(Val, st)
  ELSE Ret(UnreachableOp, st)

\* decodeSrcOp (lines 1541-1557)
decodeSrcOp(Width, Val0, MandatoryLiteral, ImmWidth, IsFP, st) ==
  LET IsAGPR == (Val0 \div 512) % 2 = 1
      Val == Val0 % 512
  IN  IF EncValues.VGPR_MIN <= Val /\ Val <= EncValues.VGPR_MAX
      THEN createRegOperand(IF IsAGPR THEN getAgprClassId(Width)
                                      ELSE getVgprClassId(Width),
                            Val - EncValues.VGPR_MIN, st)
      ELSE decodeNonVGPRSrcOp(Width, Val % 256, MandatoryLiteral, ImmWidth,
                              IsFP, st)

\* decodeOperand_KImmFP (lines 337-342)
decodeOperand_KImmFP(Imm, st) == decodeMandatoryLiteralConstant(Imm, st)

(***************************************************************************)
(* MCInst and the instruction metadata the code queries (MCInstrDesc,      *)
(* AMDGPU::getNamedOperandIdx, TSFlags, MIMG info).  An opcode is a base   *)
(* name, its encoding family and, for image opcodes, the data and address  *)
(* dword counts of the variant; the record of an opcode carries what       *)
(* MCII->get(Opcode) holds for it: the operand names in schema order and   *)
(* the TSFlags.                                                            *)
(***************************************************************************)
\* number of address operands of an image opcode: NSA encodings have one per
\* dword, at most NSAMaxSize of them on GFX11 (the last holds the rest)
NSAMaxSize == 5

NumVAddrs(opc) ==
  CASE opc.enc = "Gfx10NSA" -> opc.va
    [] opc.enc \in {"Gfx11NSA", "Gfx12"} -> Min(opc.va, NSAMaxSize)
    [] OTHER -> 1

VAddrNames ==
  <<"vaddr0", "vaddr1", "vaddr2", "vaddr3", "vaddr4", "vaddr5", "vaddr6",
    "vaddr7", "vaddr8", "vaddr9", "vaddr10", "vaddr11", "vaddr12">>

\* the operand names of the opcode, in schema order (MCInstrDesc operands)
DescOperands(opc) ==
  CASE opc.base = "PLAIN" -> <<"vdst", "src0">>
    [] opc.base = "DPP8_VOP1" -> <<"vdst", "src0", "dpp8", "fi">>
    [] opc.base = "DPP8_VOP3" ->
         <<"vdst", "src0_modifiers", "src0", "src2", "op_sel", "dpp8", "fi">>
    [] opc.base = "DPP8_VOPC" ->
         <<"old", "src0_modifiers", "src0", "src1_modifiers", "src1", "dpp8",
           "fi">>
    [] opc.base = "DPP8_MAC" ->
         <<"vdst", "old", "src0", "src1", "src2_modifiers", "src2", "dpp8",
           "fi">>
    [] opc.base = "DPP_VOP1" -> <<"vdst", "src0", "dpp_ctrl">>
    [] opc.base = "DPP_VOP3" ->
         <<"vdst", "src0_modifiers", "src0", "src2", "op_sel", "dpp_ctrl">>
    [] opc.base = "DPP_VOP3P" ->
         <<"vdst", "src0_modifiers", "src0", "src1_modifiers", "src1",
           "vdst_in", "op_sel", "op_sel_hi", "neg_lo", "neg_hi", "dpp_ctrl">>
    [] opc.base = "DPP_VOPC" ->
         <<"old", "src0_modifiers", "src0", "src1_modifiers", "src1",
           "dpp_ctrl">>
    [] opc.base = "DPP_VOPC64" ->
         <<"sdst", "src0_modifiers", "src0", "src1_modifiers", "src1",
           "dpp_ctrl">>
    [] opc.base = "SDWA_VOP1" ->
         <<"vdst", "src0_modifiers", "src0", "clamp", "omod", "dst_sel">>
    [] opc.base = "SDWA_VOPC" ->
         <<"sdst", "src0_modifiers", "src0", "src1", "clamp", "src0_sel">>
    [] opc.base = "V_MAC_F32_e64" ->
         <<"vdst", "src0", "src1", "src2_modifiers", "src2">>
    [] opc.base = "DS_ADD_U32" -> <<"addr", "data0", "offset", "gds">>
    [] opc.base \in {"BUFFER_LOAD_DWORD", "BUFFER_ATOMIC_ADD_RTN"} ->
         <<"vdata", "vaddr", "srsrc", "offset", "cpol", "tfe", "swz">>
    [] opc.base = "FLAT_ATOMIC_ADD_RTN" ->
         <<"vdst", "vaddr", "vdata", "offset", "cpol">>
    [] opc.base = "EXP" -> <<"tgt", "src0", "vm", "compr", "en">>
    [] opc.base = "V_INTERP_P10_F16_F32_inreg" ->
         <<"vdst", "src0", "src1", "op_sel", "wait_exp">>
    [] opc.base = "V_INTERP_P10_F32_inreg" ->
         <<"vdst", "src0", "src1", "wait_exp">>
    [] opc.base = "V_MAD_MIXLO_F16" -> <<"vdst", "src0", "src1", "vdst_in">>
    [] opc.base = "V_FMAAK_F32" -> <<"vdst", "src0", "src1", "imm">>
    [] opc.base = "V_DUAL_FMAAK_X_FMAAK" ->
         <<"vdstX", "src0X", "vsrc1X", "imm", "vdstY", "src0Y", "vsrc1Y",
           "immDeferred">>
    [] opc.base = "V_DUAL_FMAAK_X_FMAMK" ->
         <<"vdstX", "src0X", "vsrc1X", "imm", "vdstY", "src0Y", "immY",
           "vsrc1Y">>
    [] opc.base = "S_SETREG_IMM32_B32" -> <<"imm", "simm16">>
    [] opc.base = "IMAGE_BVH" ->
         <<"vdata">> \o SubSeq(VAddrNames, 1, NumVAddrs(opc)) \o
         <<"srsrc", "a16">>
    [] opc.base \in {"IMAGE_LOAD", "IMAGE_SAMPLE_D"} ->
         <<"vdata">> \o SubSeq(VAddrNames, 1, NumVAddrs(opc)) \o
         <<(IF opc.enc = "Gfx12" THEN "rsrc" ELSE "srsrc"), "dmask", "dim",
           "a16", "tfe", "d16">>
    [] opc.base = "IMAGE_ATOMIC" ->
         <<"vdst", "vdata">> \o SubSeq(VAddrNames, 1, NumVAddrs(opc)) \o
         <<(IF opc.enc = "Gfx12" THEN "rsrc" ELSE "srsrc"), "dmask", "dim",
           "a16", "tfe">>
    [] OTHER -> <<>>

\* MCInstrDesc::TSFlags (SIInstrFlags) of the opcode
DescTSFlags(opc) ==
  CASE opc.base \in {"DPP8_VOP1", "DPP_VOP1"} -> {"VOP1"}
    [] opc.base \in {"DPP8_VOP3", "DPP_VOP3", "DPP_VOPC64", "V_MAC_F32_e64",
                     "V_MAD_MIXLO_F16"} -> {"VOP3"}
    [] opc.base \in {"DPP8_MAC", "V_FMAAK_F32"} -> {"VOP2"}
    [] opc.base \in {"V_DUAL_FMAAK_X_FMAAK", "V_DUAL_FMAAK_X_FMAMK"} ->
         {"VOPD"}
    [] opc.base \in {"DPP8_VOPC", "DPP_VOPC", "SDWA_VOPC"} -> {"VOPC"}
    [] opc.base = "DPP_VOP3P" -> {"VOP3P"}
    [] opc.base = "DS_ADD_U32" -> {"DS"}
    [] opc.base = "BUFFER_LOAD_DWORD" -> {"MUBUF"}
    [] opc.base = "BUFFER_ATOMIC_ADD_RTN" -> {"MUBUF", "IsAtomicRet"}
    [] opc.base = "FLAT_ATOMIC_ADD_RTN" -> {"FLAT", "IsAtomicRet"}
    [] opc.base = "EXP" -> {"EXP"}
    [] opc.base \in {"V_INTERP_P10_F16_F32_inreg", "V_INTERP_P10_F32_inreg"} ->
         {"VINTERP"}
    [] opc.base = "S_SETREG_IMM32_B32" -> {"SOPK"}
    [] opc.base \in {"IMAGE_LOAD", "IMAGE_SAMPLE_D", "IMAGE_BVH",
                     "IMAGE_ATOMIC"} ->
         IF opc.enc = "Gfx12" THEN {"VIMAGE"} ELSE {"MIMG"}
    [] OTHER -> {}

MIMGOpc(base, enc, vd, va) ==
  LET o == [base |-> base, enc |-> enc, vd |-> vd, va |-> va]
  IN  [base |-> base, enc |-> enc, vd |-> vd, va |-> va,
       names |-> DescOperands(o), flags |-> DescTSFlags(o)]

Opc(base, enc) == MIMGOpc(base, enc, 0, 0)

\* MCInst(): opcode 0, no operands
EmptyInst == [opc |-> Opc("", ""), ops |-> <<>>]

OperandNames(opc) == opc.names

TSFlags(opc) == opc.flags

\* MCInstrDesc::getNumOperands
DescNumOps(opc) == Len(OperandNames(opc))

\* AMDGPU::getNamedOperandIdx: the 0-based schema position, -1 if absent
getNamedOperandIdx(opc, name) ==
  LET names == OperandNames(opc)
  IN  IF \E i \in 1..Len(names) : names[i] = name
      THEN (CHOOSE i \in 1..Len(names) : names[i] = name) - 1
      ELSE -1

hasNamedOperand(opc, name) == getNamedOperandIdx(opc, name) # -1

\* the vector register class of a given number of dwords
VRegClass(dw) ==
  <<"VGPR_32", "VReg_64", "VReg_96", "VReg_128", "VReg_160", "VReg_192",
    "VReg_224", "VReg_256", "VReg_288", "VReg_320", "VReg_352", "VReg_384",
    "VReg_512", "VReg_512", "VReg_512", "VReg_512">>[dw]

\* MCInstrDesc::operands()[Idx].RegClass of the data and address operands of
\* an image opcode
OperandRegClass(opc, Idx) ==
  LET name == OperandNames(opc)[Idx + 1]
      n == NumVAddrs(opc)
  IN  CASE name \in {"vdata", "vdst"} -> VRegClass(opc.vd)
        [] opc.base = "IMAGE_BVH" ->
             IF name \in {"vaddr0", "vaddr1"} THEN "VGPR_32" ELSE "VReg_96"
        [] opc.enc \in {"Gfx10NSA", "Gfx11NSA", "Gfx12"} ->
             IF name = VAddrNames[n] /\ opc.va > n
             THEN VRegClass(opc.va - n + 1) ELSE "VGPR_32"
        [] OTHER -> VRegClass(opc.va)

\* MCInstrDesc::getOperandConstraint(Idx, TIED_TO): 0-based, -1 if not tied
TiedTo(opc, Idx) ==
  IF Idx >= 0 /\ Idx < DescNumOps(opc)
     /\ (OperandNames(opc)[Idx + 1] = "vdst_in"
         \/ (opc.base = "DPP8_MAC" /\ OperandNames(opc)[Idx + 1] = "src2"))
  THEN 0 ELSE -1

\* MCInstrDesc::operands()[I].OperandType is one of the *_DEFERRED types
IsDeferredOp(opc, I) ==
  opc.base \in {"V_FMAAK_F32", "V_DUAL_FMAAK_X_FMAAK", "V_DUAL_FMAAK_X_FMAMK"}
  /\ OperandNames(opc)[I + 1] \in {"src0", "src0X", "src0Y"}

\* AMDGPU::isMAC, AMDGPU::isVOPC64DPP
isMAC(opc) == opc.base = "V_MAC_F32_e64"

isVOPC64DPP(opc) == opc.base = "DPP_VOPC64"

\* AMDGPU::getMIMGBaseOpcodeInfo(...)->BVH
IsBVH(opc) == opc.base = "IMAGE_BVH"

\* AMDGPU::getMIMGDimInfoByEncoding(...)->NumCoords
DimNumCoords(DimEnc) == <<1, 2, 3, 3, 2, 3, 3, 4>>[(DimEnc % 8) + 1]

\* AMDGPU::getAddrSizeMIMGOp: the coordinates (packed in pairs with A16),
\* and for a sample with gradients two derivatives per coordinate
getAddrSizeMIMGOp(opc, DimEnc, IsA16) ==
  (IF opc.base = "IMAGE_SAMPLE_D" THEN 2 * DimNumCoords(DimEnc) ELSE 0)
  + (IF IsA16 THEN (DimNumCoords(DimEnc) + 1) \div 2
     ELSE DimNumCoords(DimEnc))

\* AMDGPU::getMIMGOpcode: the variant of the same base opcode and encoding
\* with the given sizes, or the empty opcode (-1) if there is none
getMIMGOpcode(opc, DstSize, AddrSize) ==
  IF DstSize \in 1..5
     /\ AddrSize \in (CASE opc.enc = "Default" -> {1, 2, 3, 4}
                        [] opc.enc \in {"Gfx10NSA", "Gfx11NSA"} -> 2..13
                        [] opc.enc = "Gfx12" -> 1..5
                        [] OTHER -> 1..8)
  THEN MIMGOpc(opc.base, opc.enc, DstSize, AddrSize)
  ELSE Opc("", "")

\* MRI.getMatchingSuperReg(Reg, sub0, RC) of a vector register or tuple:
\* the register of class RC that starts at the same VGPR, if any
getMatchingSuperReg(Reg, RC) ==
  IF ClassDwords(RC) > 1 /\ Reg.v[1] < NumRegs(RC) THEN RegOp(RC, Reg.v[1])
  ELSE RegOp("NoRegister", 0)

(***************************************************************************)
(* The generated decoder tables (AMDGPUGenDisassemblerTables.inc).  An     *)
(* entry that matches the window decodes the opcode's encoded operands in  *)
(* order; each operand is a bit field of the main encoding (here: a byte   *)
(* of it) handed to one of the operand decoders above.                     *)
(***************************************************************************)
Field(d, pos, rc, w, hi, iw, mand, mask) ==
  [d |-> d, pos |-> pos, rc |-> rc, w |-> w, hi |-> hi, iw |-> iw,
   mand |-> mand, mask |-> mask]

FImm(pos, mask) == Field("imm", pos, "", "", 0, 0, FALSE, mask)

FReg8(rc, pos) == Field("reg8", pos, rc, "", 0, 0, FALSE, 256)

FSrc(w, pos, hi, iw, mand) == Field("src", pos, "", w, hi, iw, mand, 256)

FSReg(w, pos) == Field("sreg7", pos, "", w, 0, 0, FALSE, 16)

FKImm(pos) == Field("kimm", pos, "", "", 0, 0, FALSE, 256)

\* one operand decoder of lines 117-342 applied to its field
decodeField(f, st) ==
  LET b == ByteAt(st.pat, f.pos)
  IN  CASE f.d = "imm" -> Ret(ImmOp(I64(b % f.mask)), st)
        [] f.d = "reg8" -> createRegOperand(f.rc, b, st)
        [] f.d = "src" ->
             decodeSrcOp(f.w, b + 256 * f.hi, f.mand, f.iw, FALSE, st)
        [] f.d = "sreg7" ->
             decodeSrcOp(f.w, (b % f.mask) * 4, FALSE, 0, FALSE, st)
        [] f.d = "kimm" -> decodeOperand_KImmFP(WordAt(st.pat, f.pos), st)

\* the operand part of the generated decodeInstruction: every decoder ends in
\* addOperand (lines 56-62); the first invalid operand fails the entry
RECURSIVE decodeInstruction(_, _, _, _)
decodeInstruction(fields, i, ops, st) ==
  LET Add(r) ==
        IF isValid(r.op)
        THEN decodeInstruction(fields, i + 1, Append(ops, r.op), r.st)
        ELSE [ok |-> FALSE, ops |-> Append(ops, r.op), st |-> r.st]
  IN  IF i > Len(fields) THEN [ok |-> TRUE, ops |-> ops, st |-> st]
      ELSE Add(decodeField(fields[i], st))

\* the fields of the entry that decodes to opcode opc
EntryFields(opc) ==
  LET V == "VGPR_32"
      S(p) == FSrc("OPW32", p, 0, 32, FALSE)
      SV(p) == FSrc("OPW32", p, 1, 32, FALSE)
      D(p) == FSrc("OPW32", p, 0, 32, TRUE)
      buf == <<FReg8(V, 5), FReg8(V, 4), FSReg("OPW128", 6), FImm(0, 256),
               FImm(1, 8)>>
      nsa == opc.enc \in {"Gfx10NSA", "Gfx11NSA"}
      vaddrs == IF opc.enc = "Gfx12"
                THEN [i \in 1..NumVAddrs(opc) |-> FReg8(V, 3 + i)]
                ELSE IF nsa THEN <<FReg8(V, 4)>>
                ELSE <<FReg8(VRegClass(opc.va), 4)>>
      img == <<FSReg("OPW256", 5), FImm(2, 16), FImm(0, 8), FImm(7, 2),
               FImm(6, 2)>>
  IN  CASE opc.base = "PLAIN" -> <<FReg8(V, 2), S(0)>>
        [] opc.base = "DPP8_VOP1" ->
             <<FReg8(V, 2), FReg8(V, 4), FImm(5, 256), FImm(0, 256)>>
        [] opc.base = "DPP8_VOP3" ->
             <<FReg8(V, 0), FImm(7, 16), FReg8(V, 8), S(6), FImm(9, 256),
               FImm(4, 256)>>
        [] opc.base = "DPP8_VOPC" ->
             <<FReg8(V, 4), FReg8(V, 1), FImm(5, 256), FImm(0, 256)>>
        [] opc.base = "DPP8_MAC" ->
             <<FReg8(V, 2), FReg8(V, 4), FReg8(V, 1), FReg8(V, 2),
               FImm(5, 256), FImm(0, 256)>>
        [] opc.base = "DPP_VOP1" -> <<FReg8(V, 2), FReg8(V, 4), FImm(5, 256)>>
        [] opc.base = "DPP_VOP3" ->
             <<FReg8(V, 0), FImm(7, 16), FReg8(V, 8), S(6), FImm(9, 256)>>
        [] opc.base = "DPP_VOP3P" ->
             <<FReg8(V, 0), FImm(7, 16), FReg8(V, 8), FImm(10, 16),
               FReg8(V, 5), FImm(9, 256)>>
        [] opc.base = "DPP_VOPC" -> <<FReg8(V, 4), FReg8(V, 1), FImm(5, 256)>>
        [] opc.base = "DPP_VOPC64" ->
             <<FSReg("OPW64", 0), FImm(7, 16), FReg8(V, 8), FImm(10, 16),
               FReg8(V, 5), FImm(9, 256)>>
        [] opc.base = "SDWA_VOP1" ->
             IF opc.enc = "SDWA64"
             THEN <<FReg8(V, 2), FImm(6, 16), FReg8(V, 4), FImm(5, 2),
                    FImm(7, 8)>>
             ELSE <<FReg8(V, 2), FImm(6, 16), FReg8(V, 4), FImm(5, 2),
                    FImm(3, 4), FImm(7, 8)>>
        [] opc.base = "SDWA_VOPC" ->
             IF opc.enc = "SDWA64"
             THEN <<FImm(6, 16), FReg8(V, 4), FReg8(V, 1), FImm(5, 2),
                    FImm(7, 8)>>
             ELSE <<FSReg("OPW64", 5), FImm(6, 16), FReg8(V, 4), FReg8(V, 1),
                    FImm(7, 8)>>
        [] opc.base = "V_MAC_F32_e64" -> <<FReg8(V, 0), SV(4), SV(5), SV(6)>>
        [] opc.base = "DS_ADD_U32" ->
             <<FReg8(V, 4), FReg8(V, 5), FImm(0, 256)>> \o
             (IF opc.enc = "GFX1264" THEN <<>> ELSE <<FImm(2, 2)>>)
        [] opc.base \in {"BUFFER_LOAD_DWORD", "BUFFER_ATOMIC_ADD_RTN"} ->
             buf \o (IF opc.enc = "GFX90A64" THEN <<>> ELSE <<FImm(7, 2)>>)
        [] opc.base = "FLAT_ATOMIC_ADD_RTN" ->
             <<FReg8(V, 7), FReg8(V, 4), FReg8(V, 5), FImm(0, 256)>>
        [] opc.base = "EXP" ->
             IF opc.enc \in {"GFX1164", "GFX1264"}
             THEN <<FImm(0, 64), FReg8(V, 4), FImm(1, 16)>>
             ELSE <<FImm(0, 64), FReg8(V, 4), FImm(2, 2), FImm(3, 2),
                    FImm(1, 16)>>
        [] opc.base \in {"V_INTERP_P10_F16_F32_inreg",
                         "V_INTERP_P10_F32_inreg"} ->
             <<FReg8(V, 0), FReg8(V, 4), FReg8(V, 5), FImm(1, 8)>>
        [] opc.base = "V_MAD_MIXLO_F16" -> <<FReg8(V, 0), SV(4), SV(5)>>
        [] opc.base = "V_FMAAK_F32" ->
             <<FReg8(V, 2), D(0), FReg8(V, 1), FKImm(4)>>
        [] opc.base = "V_DUAL_FMAAK_X_FMAAK" ->
             <<FReg8(V, 7), D(0), FReg8(V, 1), FKImm(8), FReg8(V, 6), D(4),
               FReg8(V, 5)>>
        [] opc.base = "V_DUAL_FMAAK_X_FMAMK" ->
             <<FReg8(V, 7), D(0), FReg8(V, 1), FKImm(8), FReg8(V, 6), D(3),
               FKImm(4), FReg8(V, 5)>>
        [] opc.base = "S_SETREG_IMM32_B32" -> <<FImm(4, 256), FImm(0, 256)>>
        [] opc.base \in {"IMAGE_LOAD", "IMAGE_SAMPLE_D"} ->
             <<FReg8(VRegClass(opc.vd), 1)>> \o vaddrs \o img \o
             <<FImm(3, 2)>>
        [] opc.base = "IMAGE_ATOMIC" ->
             <<FReg8(VRegClass(opc.vd), 1), FReg8(VRegClass(opc.vd), 1)>> \o
             vaddrs \o img
        [] opc.base = "IMAGE_BVH" ->
             <<FReg8(VRegClass(opc.vd), 1)>> \o vaddrs \o
             <<FSReg("OPW128", 5)>>
        [] OTHER -> <<>>

(***************************************************************************)
(* Operand list edits.                                                     *)
(***************************************************************************)
\* MI.insert(MI.begin() + Idx, Op); an iterator past the end is undefined
\* behaviour, recorded by the marker operand
InsertAt(ops, Idx, Op) ==
  IF Idx <= Len(ops)
  THEN SubSeq(ops, 1, Idx) \o <<Op>> \o SubSeq(ops, Idx + 1, Len(ops))
  ELSE Append(ops, UnreachableOp)

\* insertNamedMCOperand (lines 64-73)
insertNamedMCOperand(mi, Op, Name) ==
  LET OpIdx == getNamedOperandIdx(mi.opc, Name)
  IN  IF OpIdx # -1 THEN [mi EXCEPT !.ops = InsertAt(@, OpIdx, Op)] ELSE mi

\* MCOperand::createReg(0)
NoRegOp == RegOp("NoRegister", 0)

Imm(n) == ImmOp(I64(n))

\* !!(Val & Mask) for a one-bit mask
TestBit(Val, Mask) == (Val \div Mask) % 2

\* collectVOPModifiers (lines 881-906); SISrcMods: NEG 1, NEG_HI 2,
\* OP_SEL_0 4, OP_SEL_1 8, DST_OP_SEL 8
C25_HighFromLow(mi, IsVOP3P) ==
  LET ModOps == <<"src0_modifiers", "src1_modifiers", "src2_modifiers">>
      Val(J) ==
        LET OpIdx == getNamedOperandIdx(mi.opc, ModOps[J + 1])
        IN  IF OpIdx = -1 \/ OpIdx >= Len(mi.ops) THEN 0
            ELSE getImmLow(mi.ops[OpIdx + 1])
      Sum(Mask) == TestBit(Val(0), Mask) + 2 * TestBit(Val(1), Mask)
                   + 4 * TestBit(Val(2), Mask)
  IN  [OpSel |-> Sum(4) + (IF IsVOP3P THEN 0 ELSE 8 * TestBit(Val(0), 8)),
       OpSelHi |-> IF IsVOP3P THEN Sum(4) ELSE 0,
       NegLo |-> IF IsVOP3P THEN Sum(1) ELSE 0,
       NegHi |-> IF IsVOP3P THEN Sum(2) ELSE 0]

collectVOPModifiers(mi, IsVOP3P) ==
  LET ModOps == <<"src0_modifiers", "src1_modifiers", "src2_modifiers">>
      Val(J) ==
        LET OpIdx == getNamedOperandIdx(mi.opc, ModOps[J + 1])
        IN  IF OpIdx = -1 \/ OpIdx >= Len(mi.ops) THEN 0
            ELSE getImmLow(mi.ops[OpIdx + 1])
      Sum(Mask) == TestBit(Val(0), Mask) + 2 * TestBit(Val(1), Mask)
                   + 4 * TestBit(Val(2), Mask)
  IN  [OpSel |-> Sum(4) + (IF IsVOP3P THEN 0 ELSE 8 * TestBit(Val(0), 8)),
       OpSelHi |-> IF IsVOP3P THEN Sum(8) ELSE 0,
       NegLo |-> IF IsVOP3P THEN Sum(1) ELSE 0,
       NegHi |-> IF IsVOP3P THEN Sum(2) ELSE 0]

\* isMacDPP (lines 910-927)
isMacDPP(mi) ==
  LET OldIdx == getNamedOperandIdx(mi.opc, "old")
  IN  OldIdx # -1 /\ TiedTo(mi.opc, OldIdx) = -1

\* convertMacDPPInst (lines 930-935)
convertMacDPPInst(mi) ==
  insertNamedMCOperand(insertNamedMCOperand(mi, NoRegOp, "old"), Imm(0),
                       "src2_modifiers")

\* "if (MI.getNumOperands() < DescNumOps && hasNamedOperand(Opc, Name))
\*    insertNamedMCOperand(MI, Op, Name)"
insertIfShort(mi, Op, Name) ==
  IF Len(mi.ops) < DescNumOps(mi.opc) /\ hasNamedOperand(mi.opc, Name)
  THEN insertNamedMCOperand(mi, Op, Name) ELSE mi

\* convertVOP3PDPPInst (lines 1141-1168)
convertVOP3PDPPInst(mi) ==
  LET Mods == collectVOPModifiers(mi, TRUE)
      m1 == insertIfShort(mi, Imm(0), "vdst_in")
      m2 == insertIfShort(m1, Imm(Mods.OpSel), "op_sel")
      m3 == insertIfShort(m2, Imm(Mods.OpSelHi), "op_sel_hi")
      m4 == insertIfShort(m3, Imm(Mods.NegLo), "neg_lo")
  IN  insertIfShort(m4, Imm(Mods.NegHi), "neg_hi")

\* convertVOPCDPPInst (lines 1171-1189)
convertVOPCDPPInst(mi) ==
  LET m1 == insertIfShort(mi, NoRegOp, "old")
      m2 == insertIfShort(m1, Imm(0), "src0_modifiers")
  IN  insertIfShort(m2, Imm(0), "src1_modifiers")

\* convertVOP3DPPInst (lines 972-985)
convertVOP3DPPInst(mi) ==
  LET m1 == IF isMacDPP(mi) THEN convertMacDPPInst(mi) ELSE mi
  IN  insertIfShort(m1, Imm(collectVOPModifiers(m1, FALSE).OpSel), "op_sel")

\* isValidDPP8 (lines 477-485); DPP8_FI_0 = 0xE9, DPP8_FI_1 = 0xEA
DPP8_FI_0 == 233

DPP8_FI_1 == 234

isValidDPP8(mi) ==
  LET FiIdx == getNamedOperandIdx(mi.opc, "fi")
  IN  IF FiIdx >= Len(mi.ops) THEN FALSE
      ELSE getImmLow(mi.ops[FiIdx + 1]) \in {DPP8_FI_0, DPP8_FI_1}

\* convertDPP8Inst (lines 939-970): the converted instruction and the status
convertDPP8Inst(mi) ==
  LET VOP(m1) ==
        IF Len(m1.ops) < DescNumOps(m1.opc) /\ hasNamedOperand(m1.opc, "op_sel")
        THEN insertNamedMCOperand(
               m1, Imm(collectVOPModifiers(m1, FALSE).OpSel), "op_sel")
        ELSE insertIfShort(insertIfShort(m1, Imm(0), "src0_modifiers"),
                           Imm(0), "src1_modifiers")
      Status(conv) ==
        [MI |-> conv,
         Status |-> IF isValidDPP8(conv) THEN "Success" ELSE "SoftFail"]
  IN  Status(IF "VOP3P" \in TSFlags(mi.opc) THEN convertVOP3PDPPInst(mi)
             ELSE IF "VOPC" \in TSFlags(mi.opc) \/ isVOPC64DPP(mi.opc)
             THEN convertVOPCDPPInst(mi)
             ELSE VOP(IF isMacDPP(mi) THEN convertMacDPPInst(mi) ELSE mi))

(***************************************************************************)
(* The cascade of getInstruction (lines 497-703), one row per tryDecodeInst*)
(* call, in program order: the table, its *_FAKE16 companion ("" if the    *)
(* call names one table), the feature that guards the call ("" if none)    *)
(* and what the code does with a match.                                    *)
(***************************************************************************)
Row(t, t2, gate, kind) == [t |-> t, t2 |-> t2, gate |-> gate, kind |-> kind]

\* lines 503-547
Rows96 ==
  <<Row("DPP8GFX1196", "DPP8GFX11_FAKE1696", "", "dpp8"),
    Row("DPP8GFX1296", "DPP8GFX12_FAKE1696", "", "dpp8"),
    Row("DPPGFX1196", "DPPGFX11_FAKE1696", "", "dpp96"),
    Row("DPPGFX1296", "DPPGFX12_FAKE1696", "", "dpp96"),
    Row("GFX1196", "", "", "plain"),
    Row("GFX1296", "", "", "plain")>>

\* lines 551-625
Rows64 ==
  <<Row("GFX10_B64", "", "GFX10_BEncoding", "b64"),
    Row("DPP864", "", "", "dpp8"),
    Row("DPP8GFX1164", "DPP8GFX11_FAKE1664", "", "dpp8"),
    Row("DPP8GFX1264", "DPP8GFX12_FAKE1664", "", "dpp8"),
    Row("DPP64", "", "", "plain"),
    Row("DPPGFX1164", "DPPGFX11_FAKE1664", "", "dppvopc"),
    Row("DPPGFX1264", "DPPGFX12_FAKE1664", "", "dppvopc"),
    Row("SDWA64", "", "", "sdwa"),
    Row("SDWA964", "", "", "sdwa"),
    Row("SDWA1064", "", "", "sdwa"),
    Row("GFX80_UNPACKED64", "", "UnpackedD16VMem", "plain"),
    Row("GFX9_DL64", "", "FmaMixInsts", "plain")>>

\* lines 631-663
Rows32 ==
  <<Row("GFX832", "", "", "plain"),
    Row("AMDGPU32", "", "", "plain"),
    Row("GFX932", "", "", "plain"),
    Row("GFX90A32", "", "GFX90AInsts", "plain"),
    Row("GFX10_B32", "", "GFX10_BEncoding", "plain"),
    Row("GFX1032", "", "", "plain"),
    Row("GFX1132", "GFX11_FAKE1632", "", "plain"),
    Row("GFX1232", "GFX12_FAKE1632", "", "plain")>>

\* lines 665-702
RowsExt64 ==
  <<Row("GFX94064", "", "GFX940Insts", "plain"),
    Row("GFX90A64", "", "GFX90AInsts", "plain"),
    Row("GFX864", "", "", "plain"),
    Row("AMDGPU64", "", "", "plain"),
    Row("GFX964", "", "", "plain"),
    Row("GFX1064", "", "", "plain"),
    Row("GFX1264", "GFX12_FAKE1664", "", "plain"),
    Row("GFX1164", "GFX11_FAKE1664", "", "plain"),
    Row("WMMAGFX1164", "", "", "plain")>>

AllRows == Rows96 \o Rows64 \o Rows32 \o RowsExt64

\* the tables named first in a call, and the *_FAKE16 companions
MainTables == {AllRows[i].t : i \in 1..Len(AllRows)}

Fake16Tables == {AllRows[i].t2 : i \in 1..Len(AllRows)} \ {""}

\* bytes of the main encoding a table decodes
TableWidth(t) ==
  IF \E i \in 1..Len(Rows96) : t \in {Rows96[i].t, Rows96[i].t2} THEN 12
  ELSE IF \E i \in 1..Len(Rows32) : t \in {Rows32[i].t, Rows32[i].t2} THEN 4
  ELSE 8

\* the opcode a table holds for most encodings of its family
MainOpcode(t) ==
  LET base ==
        CASE t \in {"DPP8GFX1196", "DPP8GFX1296", "DPP8GFX11_FAKE1696",
                    "DPP8GFX12_FAKE1696"} -> "DPP8_VOP3"
          [] t \in {"DPP864", "DPP8GFX1164", "DPP8GFX1264",
                    "DPP8GFX11_FAKE1664", "DPP8GFX12_FAKE1664"} -> "DPP8_VOP1"
          [] t \in {"DPPGFX1196", "DPPGFX1296", "DPPGFX11_FAKE1696",
                    "DPPGFX12_FAKE1696"} -> "DPP_VOP3"
          [] t \in {"DPP64", "DPPGFX1164", "DPPGFX1264", "DPPGFX11_FAKE1664",
                    "DPPGFX12_FAKE1664"} -> "DPP_VOP1"
          [] t \in {"SDWA64", "SDWA964", "SDWA1064"} -> "SDWA_VOP1"
          [] OTHER -> "PLAIN"
  IN  Opc(base, t)

\* <<table, opcode>>: the other entries of the tables
RichHits ==
  {<<"GFX10_B64", Opc("DPP8_VOP1", "GFX10_B64")>>,
   <<"DPP8GFX1164", Opc("DPP8_VOPC", "DPP8GFX1164")>>,
   <<"DPP864", Opc("DPP8_MAC", "DPP864")>>,
   <<"DPPGFX1196", Opc("DPP_VOP3P", "DPPGFX1196")>>,
   <<"DPPGFX1196", Opc("DPP_VOPC64", "DPPGFX1196")>>,
   <<"DPPGFX1164", Opc("DPP_VOPC", "DPPGFX1164")>>,
   <<"SDWA64", Opc("SDWA_VOPC", "SDWA64")>>,
   <<"SDWA964", Opc("SDWA_VOPC", "SDWA964")>>,
   <<"SDWA1064", Opc("SDWA_VOPC", "SDWA1064")>>,
   <<"GFX864", Opc("V_MAC_F32_e64", "GFX864")>>,
   <<"GFX1064", Opc("V_MAC_F32_e64", "GFX1064")>>,
   <<"GFX864", Opc("DS_ADD_U32", "GFX864")>>,
   <<"GFX1164", Opc("DS_ADD_U32", "GFX1164")>>,
   <<"GFX1264", Opc("DS_ADD_U32", "GFX1264")>>,
   <<"GFX864", Opc("BUFFER_LOAD_DWORD", "GFX864")>>,
   <<"GFX90A64", Opc("BUFFER_LOAD_DWORD", "GFX90A64")>>,
   <<"GFX90A64", Opc("BUFFER_ATOMIC_ADD_RTN", "GFX90A64")>>,
   <<"GFX1064", Opc("BUFFER_ATOMIC_ADD_RTN", "GFX1064")>>,
   <<"GFX964", Opc("FLAT_ATOMIC_ADD_RTN", "GFX964")>>,
   <<"GFX864", Opc("EXP", "GFX864")>>,
   <<"GFX1164", Opc("EXP", "GFX1164")>>,
   <<"GFX1164", Opc("V_INTERP_P10_F16_F32_inreg", "GFX1164")>>,
   <<"GFX1164", Opc("V_INTERP_P10_F32_inreg", "GFX1164")>>,
   <<"GFX9_DL64", Opc("V_MAD_MIXLO_F16", "GFX9_DL64")>>,
   <<"GFX1064", Opc("V_FMAAK_F32", "GFX1064")>>,
   <<"GFX1196", Opc("V_DUAL_FMAAK_X_FMAAK", "GFX1196")>>,
   <<"GFX1196", Opc("V_DUAL_FMAAK_X_FMAMK", "GFX1196")>>,
   <<"AMDGPU64", Opc("S_SETREG_IMM32_B32", "AMDGPU64")>>,
   <<"GFX864", MIMGOpc("IMAGE_LOAD", "Default", 1, 1)>>,
   <<"GFX864", MIMGOpc("IMAGE_LOAD", "Default", 4, 1)>>,
   <<"GFX1064", MIMGOpc("IMAGE_LOAD", "Gfx10Default", 1, 1)>>,
   <<"GFX1064", MIMGOpc("IMAGE_LOAD", "Gfx10Default", 4, 4)>>,
   <<"GFX1064", MIMGOpc("IMAGE_ATOMIC", "Gfx10Default", 1, 1)>>,
   <<"GFX1064", MIMGOpc("IMAGE_LOAD", "Gfx10NSA", 4, 2)>>,
   <<"GFX1064", MIMGOpc("IMAGE_LOAD", "Gfx10NSA", 4, 3)>>,
   <<"GFX1064", MIMGOpc("IMAGE_LOAD", "Gfx10NSA", 4, 6)>>,
   <<"GFX1064", MIMGOpc("IMAGE_SAMPLE_D", "Gfx10Default", 4, 1)>>,
   <<"GFX1064", MIMGOpc("IMAGE_SAMPLE_D", "Gfx10NSA", 4, 3)>>,
   <<"GFX1164", MIMGOpc("IMAGE_BVH", "Gfx11NSA", 4, 11)>>,
   <<"GFX1164", MIMGOpc("IMAGE_SAMPLE_D", "Gfx11NSA", 4, 5)>>,
   <<"GFX1164", MIMGOpc("IMAGE_LOAD", "Gfx11Default", 4, 1)>>,
   <<"GFX1164", MIMGOpc("IMAGE_LOAD", "Gfx11NSA", 1, 2)>>,
   <<"GFX1164", MIMGOpc("IMAGE_LOAD", "Gfx11NSA", 4, 3)>>,
   <<"GFX1164", MIMGOpc("IMAGE_LOAD", "Gfx11NSA", 4, 5)>>,
   <<"GFX1264", MIMGOpc("IMAGE_LOAD", "Gfx12", 4, 2)>>,
   <<"GFX1264", MIMGOpc("IMAGE_LOAD", "Gfx12", 4, 3)>>}

\* the feature predicate of the entry that decodes to opc: the features it
\* requires and the features that exclude it
EntryPred(opc) ==
  LET P(req, forbid) == [req |-> req, forbid |-> forbid]
  IN  CASE opc.enc = "SDWA64" -> P({"VolcanicIslands"}, {})
        [] opc.enc = "SDWA964" -> P({"GFX9"}, {})
        [] opc.enc = "SDWA1064" -> P({"GFX10"}, {})
        [] opc.base = "DS_ADD_U32" ->
             IF opc.enc = "GFX1264" THEN P({"GFX12"}, {}) ELSE P({"GDS"}, {})
        [] opc.base \in {"BUFFER_LOAD_DWORD", "BUFFER_ATOMIC_ADD_RTN"} ->
             IF opc.enc = "GFX90A64" THEN P({"GFX90AInsts"}, {})
             ELSE P({}, {"GFX90AInsts"})
        [] opc.base = "EXP" ->
             IF opc.enc \in {"GFX1164", "GFX1264"} THEN P({"GFX11Insts"}, {})
             ELSE P({}, {"GFX11Insts"})
        [] opc.base \in {"V_INTERP_P10_F16_F32_inreg",
                         "V_INTERP_P10_F32_inreg"} -> P({"GFX11Insts"}, {})
        [] opc.base \in {"V_DUAL_FMAAK_X_FMAAK", "V_DUAL_FMAAK_X_FMAMK"} ->
             P({"VOPD"}, {})
        [] opc.enc = "Default" -> P({"GCN3Encoding"}, {})
        [] opc.enc = "Gfx10Default" -> P({"GFX10"}, {})
        [] opc.enc = "Gfx10NSA" -> P({"GFX10", "NSAEncoding"}, {})
        [] opc.enc = "Gfx11Default" -> P({"GFX11"}, {})
        [] opc.enc = "Gfx11NSA" -> P({"GFX11", "NSAEncoding"}, {})
        [] opc.enc = "Gfx12" -> P({"GFX12"}, {})
        [] OTHER -> P({}, {})

checkDecoderPredicate(opc) ==
  EntryPred(opc).req \subseteq STI.feats
  /\ EntryPred(opc).forbid \cap STI.feats = {}

(***************************************************************************)
(* getInstruction.  The locals and members the cascade works on:           *)
(*   st (the members, see DState), MI, Res, IsSDWA, done (the do-while was *)
(*   left by a break), trace (one record per table consulted or            *)
(*   instruction discarded, with the read offset of Bytes at that moment), *)
(*   passes (the fix-ups behind the do-while that ran, in order), snaps    *)
(*   (the instruction each of these fix-ups found), convs (the modifier    *)
(*   reconstructions the cascade ran: the function, the instruction it     *)
(*   found and the instruction it left).                                   *)
(***************************************************************************)
Ctx(st, mi, res, sdwa, done, tr) ==
  [st |-> st, MI |-> mi, Res |-> res, IsSDWA |-> sdwa, done |-> done,
   trace |-> tr, passes |-> <<>>, snaps |-> <<>>,
   convs |-> <<>>]

\* a fix-up of lines 705-816 is entered
Pass(x, Name) ==
  [x EXCEPT !.passes = Append(@, Name), !.snaps = Append(@, x.MI)]

Ev(t, r, off, st) ==
  [t |-> t, r |-> r, off |-> off, hasLit |-> st.hasLit, lit |-> st.lit]

\* tryDecodeInst (AMDGPUDisassembler.h), one table: clears HasLiteral, runs
\* the generated decoder on a temporary instruction with a local comment
\* stream; on a match MI becomes that instruction, otherwise Bytes is put
\* back to where it was
tryDecodeInst(Table, T, c) ==
  LET Done(r) ==
        IF r.ok
        THEN [c EXCEPT !.st = r.st,
                       !.MI = [opc |-> T[Table], ops |-> r.ops],
                       !.Res = "Success",
                       !.trace = Append(@, Ev(Table, "Success", c.st.off, r.st))]
        ELSE [c EXCEPT !.st = [r.st EXCEPT !.off = c.st.off, !.cs = <<>>],
                       !.Res = "Fail",
                       !.trace = Append(@, Ev(Table, "Fail", c.st.off, r.st))]
      Run(st0) ==
        IF Table \in DOMAIN T /\ checkDecoderPredicate(T[Table])
        THEN decodeInstruction(EntryFields(T[Table]), 1, <<>>, st0)
        ELSE [ok |-> FALSE, ops |-> <<>>, st |-> st0]
  IN  Done(Run([c.st EXCEPT !.hasLit = FALSE, !.cs = <<>>]))

\* tryDecodeInst with two tables: the first that matches
tryDecodeInst2(Table1, Table2, T, c) ==
  LET Second(c1) ==
        IF Table2 = "" \/ c1.Res # "Fail" THEN c1
        ELSE tryDecodeInst(Table2, T, c1)
  IN  Second(tryDecodeInst(Table1, T, c))

\* a cascade step that keeps the instruction it should have cleared
C5_KeepInstruction(c) == c

\* "MI = MCInst(); // clear"
Discard(c) ==
  [c EXCEPT !.MI = EmptyInst,
            !.trace = IF c.Res # "Fail"
                      THEN Append(@, Ev(@[Len(@)].t, "Discard", c.st.off, c.st))
                      ELSE @]

\* a cascade that goes on after a table has won
C6_NoBreak(c) == c

Break(c) == [c EXCEPT !.done = TRUE]

\* the convertVOPDPP lambda (lines 518-527)
convertVOPDPP(mi) ==
  IF "VOP3P" \in TSFlags(mi.opc) THEN convertVOP3PDPPInst(mi)
  ELSE IF isVOPC64DPP(mi.opc) THEN convertVOPCDPPInst(mi)
  ELSE convertVOP3DPPInst(mi)

\* one tryDecodeInst call of the cascade with the statements that follow it
TryRow(row, T, c) ==
  LET Conv(c1, fn, to) ==
        [c1 EXCEPT !.MI = to,
                   !.convs = Append(@, [fn |-> fn, from |-> c1.MI, to |-> to])]
      DPP8(c1, d8) ==
        IF d8.Status = "Success"
        THEN Break(Conv(c1, "convertDPP8Inst", d8.MI))
        ELSE Discard(Conv(c1, "convertDPP8Inst", d8.MI))
      After(c1) ==
        CASE row.kind = "plain" -> IF c1.Res # "Fail" THEN Break(c1) ELSE c1
          [] row.kind = "sdwa" ->
               IF c1.Res # "Fail" THEN Break([c1 EXCEPT !.IsSDWA = TRUE])
               ELSE c1
          [] row.kind = "dpp8" ->
               IF c1.Res # "Fail" THEN DPP8(c1, convertDPP8Inst(c1.MI))
               ELSE Discard(c1)
          [] row.kind = "b64" ->
               IF c1.Res = "Fail" THEN c1
               ELSE IF getNamedOperandIdx(c1.MI.opc, "dpp8") = -1
               THEN Break(c1)
               ELSE DPP8(c1, convertDPP8Inst(c1.MI))
          [] row.kind = "dpp96" ->
               IF c1.Res # "Fail"
               THEN Break(Conv(c1, "convertVOPDPP", convertVOPDPP(c1.MI)))
               ELSE c1
          [] row.kind = "dppvopc" ->
               IF c1.Res # "Fail"
               THEN IF "VOPC" \in TSFlags(c1.MI.opc)
                    THEN Break(Conv(c1, "convertVOPCDPPInst",
                                    convertVOPCDPPInst(c1.MI)))
                    ELSE Break(c1)
               ELSE c1
  IN  IF row.gate # "" /\ ~hasFeature(row.gate) THEN c
      ELSE After(tryDecodeInst2(row.t, row.t2, T, c))

RECURSIVE TryRows(_, _, _, _)
TryRows(rows, i, T, c) ==
  IF i > Len(rows) \/ c.done THEN c
  ELSE TryRows(rows, i + 1, T, TryRow(rows[i], T, c))

\* "Bytes = Bytes_.slice(0, MaxInstBytesNum)" followed by eatBytes of n bytes
Reinit(c, n) == [c EXCEPT !.st.off = n]

\* the do { ... } while (false) of getInstruction (lines 497-703)
Cascade(T, c0) ==
  LET H96(c) == IF isGFX11Plus /\ c.st.max >= 12
                THEN TryRows(Rows96, 1, T, Reinit(c, 12)) ELSE c
      H64(c) == IF c.done THEN c
                ELSE IF c.st.max >= 8 THEN TryRows(Rows64, 1, T, Reinit(c, 8))
                ELSE Reinit(c, 0)
      H32(c) == IF c.done THEN c
                ELSE IF c.st.max < 4 THEN Break(Reinit(c, 0))
                ELSE TryRows(Rows32, 1, T, Reinit(c, 4))
      Ext64(c) == IF c.done THEN c
                  ELSE IF BytesSize(c.st) < 4 THEN Break(c)
                  ELSE TryRows(RowsExt64, 1, T, [c EXCEPT !.st.off = @ + 4])
  IN  Ext64(H32(H64(H96(c0))))

(***************************************************************************)
(* The post-decode passes of getInstruction (lines 705-816).               *)
(***************************************************************************)
\* lines 716-731
C26_OverwriteGLC(mi) ==
  LET GLC == 1     \* AMDGPU::CPol::GLC
      CPolPos == getNamedOperandIdx(mi.opc, "cpol")
      CPol == IF "IsAtomicRet" \in TSFlags(mi.opc) THEN GLC ELSE 0
      OrGLC(op) == Imm(GLC)
  IN  IF CPolPos = -1 THEN mi
      ELSE IF Len(mi.ops) <= CPolPos
      THEN insertNamedMCOperand(mi, Imm(CPol), "cpol")
      ELSE IF CPol # 0
      THEN [mi EXCEPT !.ops[CPolPos + 1] = OrGLC(@)]
      ELSE mi

convertCPol(mi) ==
  LET GLC == 1     \* AMDGPU::CPol::GLC
      CPolPos == getNamedOperandIdx(mi.opc, "cpol")
      CPol == IF "IsAtomicRet" \in TSFlags(mi.opc) THEN GLC ELSE 0
      OrGLC(op) == [op EXCEPT !.v[1] = @ + (1 - (@ % 2))]
  IN  IF CPolPos = -1 THEN mi
      ELSE IF Len(mi.ops) <= CPolPos
      THEN insertNamedMCOperand(mi, Imm(CPol), "cpol")
      ELSE IF CPol # 0
      THEN [mi EXCEPT !.ops[CPolPos + 1] = OrGLC(@)]
      ELSE mi

\* lines 762-777: the NSA address bytes that follow the main encoding
RECURSIVE insertNSA(_, _, _, _, _)
insertNSA(mi, st, VAddr0Idx, NSAArgs, i) ==
  IF i >= NSAArgs THEN [MI |-> mi, st |-> st]
  ELSE LET VAddrIdx == VAddr0Idx + 1 + i
           r == createRegOperand(OperandRegClass(mi.opc, VAddrIdx),
                                 ByteAt(st.pat, st.off + i), st)
       IN  insertNSA([mi EXCEPT !.ops = InsertAt(@, VAddrIdx, r.op)], r.st,
                     VAddr0Idx, NSAArgs, i + 1)

\* lines 757-777 on the context x
expandNSA(x) ==
  LET VAddr0Idx == getNamedOperandIdx(x.MI.opc, "vaddr0")
      RsrcIdx == getNamedOperandIdx(x.MI.opc, "srsrc")
      NSAArgs == RsrcIdx - VAddr0Idx - 1
      NSAWords == (NSAArgs + 3) \div 4
      Eat(r) == [x EXCEPT !.MI = r.MI,
                          !.st = [r.st EXCEPT !.off = @ + 4 * NSAWords]]
  IN  IF ~(VAddr0Idx >= 0 /\ NSAArgs > 0) THEN x
      ELSE IF BytesSize(x.st) < 4 * NSAWords
      THEN [Pass(x, "NSA") EXCEPT !.Res = "Fail"]
      ELSE Pass(Eat(insertNSA(x.MI, x.st, VAddr0Idx, NSAArgs, 0)), "NSA")

\* llvm::popcount of a 4-bit mask
popcount(m) ==
  (m % 2) + ((m \div 2) % 2) + ((m \div 4) % 2) + ((m \div 8) % 2)

\* an erase that removes nothing
C8_EraseNothing(ops, From, To) == ops

\* MI.erase(MI.begin() + From, MI.begin() + To)
EraseRange(ops, From, To) ==
  SubSeq(ops, 1, From) \o SubSeq(ops, Min(To, Len(ops)) + 1, Len(ops))

\* convertMIMGInst (lines 990-1136): the instruction and the status
convertMIMGInst(mi) ==
  LET opc == mi.opc
      Idx(name) == getNamedOperandIdx(opc, name)
      ImmAt(i) == getImmLow(mi.ops[i + 1])
      VDstIdx == Idx("vdst")
      VDataIdx == Idx("vdata")
      VAddr0Idx == Idx("vaddr0")
      RsrcIdx == Idx(IF "MIMG" \in TSFlags(opc) THEN "srsrc" ELSE "rsrc")
      TFEIdx == Idx("tfe")
      D16Idx == Idx("d16")
      A16Idx == Idx("a16")
      IsAtomic == VDstIdx # -1
      IsGather4 == "Gather4" \in TSFlags(opc)
      IsVSample == "VSAMPLE" \in TSFlags(opc)
      IsA16 == A16Idx # -1 /\ ImmAt(A16Idx) # 0
      Computed == getAddrSizeMIMGOp(opc, ImmAt(Idx("dim")), IsA16)
      IsNSA == isGFX10Plus /\ opc.enc \in {"Gfx10NSA", "Gfx11NSA", "Gfx12"}
      AddrSize ==
        IF ~isGFX10Plus THEN opc.va
        ELSE IF ~IsNSA /\ ~IsVSample /\ Computed > 12 THEN 16
        ELSE Computed
      TooFew == IsNSA /\ AddrSize > opc.va
      IsPartialNSA == TooFew /\ hasFeature("PartialNSAEncoding")
      DMask == ImmAt(Idx("dmask")) % 16
      D16 == D16Idx >= 0 /\ ImmAt(D16Idx) # 0
      Dst0 == IF IsGather4 THEN 4 ELSE Max(popcount(DMask), 1)
      Dst1 == IF D16 /\ ~hasFeature("UnpackedD16VMem")
              THEN (Dst0 + 1) \div 2 ELSE Dst0
      DstSize == Dst1 + (IF TFEIdx # -1 /\ ImmAt(TFEIdx) # 0 THEN 1 ELSE 0)
      NewOpcode == getMIMGOpcode(opc, DstSize, AddrSize)
      WidenData == DstSize # opc.vd
      NewVdata ==
        IF WidenData
        THEN getMatchingSuperReg(mi.ops[VDataIdx + 1],
                                 OperandRegClass(NewOpcode, VDataIdx))
        ELSE NoRegOp
      VAddrSAIdx == IF IsPartialNSA THEN RsrcIdx - 1 ELSE VAddr0Idx
      WidenAddr == hasFeature("NSAEncoding") /\ (~IsNSA \/ IsPartialNSA)
                   /\ AddrSize # opc.va
      NewVAddrSA ==
        IF WidenAddr
        THEN getMatchingSuperReg(mi.ops[VAddrSAIdx + 1],
                                 OperandRegClass(NewOpcode, VAddrSAIdx))
        ELSE NoRegOp
      ops1 == IF NewVdata # NoRegOp
              THEN [i \in 1..Len(mi.ops) |->
                      IF i = VDataIdx + 1 \/ (IsAtomic /\ i = VDstIdx + 1)
                      THEN NewVdata ELSE mi.ops[i]]
              ELSE mi.ops
      ops2 == IF NewVAddrSA # NoRegOp
              THEN [ops1 EXCEPT ![VAddrSAIdx + 1] = NewVAddrSA]
              ELSE IF IsNSA
              THEN EraseRange(ops1, VAddr0Idx + AddrSize, VAddr0Idx + opc.va)
              ELSE ops1
      Same == [MI |-> mi, Status |-> "Success"]
  IN  IF IsBVH(opc)
      \* addOperand(MI, createImm(BaseOpcode->A16)) (line 1018): A16 is 0 in
      \* the BVH base opcode of the catalogue
      THEN [MI |-> [mi EXCEPT !.ops = Append(@, Imm(0))],
            Status |-> "Success"]
      ELSE IF TooFew /\ ~IsPartialNSA THEN Same
      ELSE IF DstSize = opc.vd /\ AddrSize = opc.va THEN Same
      ELSE IF NewOpcode = Opc("", "") THEN Same
      ELSE IF WidenData /\ NewVdata = NoRegOp THEN Same
      ELSE IF WidenAddr /\ NewVAddrSA = NoRegOp THEN Same
      ELSE [MI |-> [opc |-> NewOpcode, ops |-> ops2], Status |-> "Success"]

\* an export pass that inserts nothing
C2_ExportUntouched(mi) == mi

\* convertEXPInst (lines 825-833)
convertEXPInst(mi) ==
  IF hasFeature("GFX11Insts")
  THEN insertNamedMCOperand(insertNamedMCOperand(mi, Imm(0), "vm"), Imm(0),
                            "compr")
  ELSE mi

\* convertVINTERPInst (lines 835-849)
convertVINTERPInst(mi) ==
  IF mi.opc.base = "V_INTERP_P10_F16_F32_inreg"
  THEN insertNamedMCOperand(mi, Imm(0), "op_sel") ELSE mi

\* convertSDWAInst (lines 851-869)
convertSDWAInst(mi) ==
  IF hasFeature("GFX9") \/ hasFeature("GFX10")
  THEN IF hasNamedOperand(mi.opc, "sdst")
       THEN insertNamedMCOperand(mi, Imm(0), "clamp") ELSE mi
  ELSE IF hasFeature("VolcanicIslands")
  THEN IF getNamedOperandIdx(mi.opc, "sdst") # -1
       THEN insertNamedMCOperand(mi, createRegOperandId(RegId("VCC")), "sdst")
       ELSE insertNamedMCOperand(mi, Imm(0), "omod")
  ELSE mi

\* lines 796-810: the tied vdst_in
C24_InsertOnly(mi) ==
  LET VDstIn_Idx == getNamedOperandIdx(mi.opc, "vdst_in")
      Tied == TiedTo(mi.opc, VDstIn_Idx)
      present == Len(mi.ops) > VDstIn_Idx
  IN  IF VDstIn_Idx # -1 /\ Tied # -1
         /\ (~present \/ ~isReg(mi.ops[VDstIn_Idx + 1])
             \/ mi.ops[VDstIn_Idx + 1] # mi.ops[Tied + 1])
      THEN insertNamedMCOperand(mi, mi.ops[Tied + 1], "vdst_in")
      ELSE mi

convertVDstIn(mi) ==
  LET VDstIn_Idx == getNamedOperandIdx(mi.opc, "vdst_in")
      Tied == TiedTo(mi.opc, VDstIn_Idx)
      present == Len(mi.ops) > VDstIn_Idx
      m1 == IF present
            THEN [mi EXCEPT !.ops = EraseRange(@, VDstIn_Idx, VDstIn_Idx + 1)]
            ELSE mi
  IN  IF VDstIn_Idx # -1 /\ Tied # -1
         /\ (~present \/ ~isReg(mi.ops[VDstIn_Idx + 1])
             \/ mi.ops[VDstIn_Idx + 1] # mi.ops[Tied + 1])
      THEN insertNamedMCOperand(m1, m1.ops[Tied + 1], "vdst_in")
      ELSE mi

\* convertFMAanyK (lines 1191-1209)
C27_InsertOnly(mi, Lit) ==
  insertNamedMCOperand(mi, ImmOp(ZExt32(Lit)), "immDeferred")

convertFMAanyK(mi, Lit) ==
  LET m1 == insertNamedMCOperand(mi, ImmOp(ZExt32(Lit)), "immDeferred")
  IN  [m1 EXCEPT !.ops =
         [I \in 1..Len(m1.ops) |->
            IF I <= DescNumOps(m1.opc) /\ IsDeferredOp(m1.opc, I - 1)
               /\ m1.ops[I] = Imm(EncValues.LITERAL_CONST)
            THEN ImmOp(ZExt32(Lit)) ELSE m1.ops[I]]]

\* MI.insert(MI.begin() + Idx, createImm(0)) where the opcode has the operand
\* (lines 737-743 and 748-754)
insertZeroAt(mi, Name) ==
  LET OpIdx == getNamedOperandIdx(mi.opc, Name)
  IN  IF OpIdx # -1 THEN [mi EXCEPT !.ops = InsertAt(@, OpIdx, Imm(0))]
      ELSE mi

\* an image fix-up that resolves the opcode a second time, as if the
\* VIMAGE/VSAMPLE statement behind it applied to MIMG as well
C17_ResolveTwice(x) ==
  LET Resolve(y) ==
        IF y.Res = "Success"
        THEN LET Set(z, r) == [z EXCEPT !.MI = r.MI, !.Res = r.Status]
             IN  Set(Pass(y, "convertMIMGInst"), convertMIMGInst(y.MI))
        ELSE y
  IN  Resolve(Resolve(expandNSA(x)))

\* the body of "if (Res && (TSFlags & SIInstrFlags::MIMG))" (lines 757-784)
convertMIMG(x) ==
  LET Resolve(y) ==
        IF y.Res = "Success"
        THEN LET Set(z, r) == [z EXCEPT !.MI = r.MI, !.Res = r.Status]
             IN  Set(Pass(y, "convertMIMGInst"), convertMIMGInst(y.MI))
        ELSE y
  IN  Resolve(expandNSA(x))

\* lines 705-816 of getInstruction: the passes in program order, each
\* guarded by Res, on the context the cascade left
Normalize(c) ==
  LET F(x) == TSFlags(x.MI.opc)
      Ok(x) == x.Res = "Success"
      Set(x, r) == [x EXCEPT !.MI = r.MI, !.Res = r.Status]
      MAC(x) ==
        IF Ok(x) /\ isMAC(x.MI.opc)
        THEN [Pass(x, "src2_modifiers") EXCEPT
                !.MI = insertNamedMCOperand(@, Imm(0), "src2_modifiers")]
        ELSE x
      DS(x) ==
        IF Ok(x) /\ "DS" \in F(x) /\ ~hasFeature("GDS")
        THEN [Pass(x, "gds") EXCEPT
                !.MI = insertNamedMCOperand(@, Imm(0), "gds")]
        ELSE x
      CPol(x) ==
        IF Ok(x) /\ F(x) \cap {"MUBUF", "FLAT", "SMRD"} # {}
        THEN [Pass(x, "cpol") EXCEPT !.MI = convertCPol(@)] ELSE x
      TFE(x) ==
        IF Ok(x) /\ F(x) \cap {"MTBUF", "MUBUF"} # {}
           /\ hasFeature("GFX90AInsts")
        THEN [Pass(x, "tfe") EXCEPT !.MI = insertZeroAt(@, "tfe")] ELSE x
      SWZ(x) ==
        IF Ok(x) /\ F(x) \cap {"MTBUF", "MUBUF"} # {}
        THEN [Pass(x, "swz") EXCEPT !.MI = insertZeroAt(@, "swz")] ELSE x
      MIMG(x) == IF Ok(x) /\ "MIMG" \in F(x) THEN convertMIMG(x) ELSE x
      VIMAGE(x) ==
        IF Ok(x) /\ F(x) \cap {"VIMAGE", "VSAMPLE"} # {}
        THEN Set(Pass(x, "convertMIMGInst"), convertMIMGInst(x.MI)) ELSE x
      EXP(x) ==
        IF Ok(x) /\ "EXP" \in F(x)
        THEN [Pass(x, "convertEXPInst") EXCEPT !.MI = convertEXPInst(@)]
        ELSE x
      VINTERP(x) ==
        IF Ok(x) /\ "VINTERP" \in F(x)
        THEN [Pass(x, "convertVINTERPInst") EXCEPT
                !.MI = convertVINTERPInst(@)]
        ELSE x
      SDWA(x) ==
        IF Ok(x) /\ x.IsSDWA
        THEN [Pass(x, "convertSDWAInst") EXCEPT !.MI = convertSDWAInst(@)]
        ELSE x
      VDstIn(x) ==
        IF convertVDstIn(x.MI) # x.MI
        THEN [Pass(x, "vdst_in") EXCEPT !.MI = convertVDstIn(@)] ELSE x
      FMAanyK(x) ==
        IF Ok(x) /\ getNamedOperandIdx(x.MI.opc, "imm") # -1
           /\ "SOPK" \notin F(x)
        THEN [Pass(x, "convertFMAanyK") EXCEPT
                !.MI = convertFMAanyK(@, x.st.lit)]
        ELSE x
  IN  FMAanyK(VDstIn(SDWA(VINTERP(EXP(VIMAGE(MIMG(SWZ(TFE(CPol(DS(MAC(
        c))))))))))))

\* the caller hands getInstruction a fresh MCInst and a window of the code
\* section; Tables is what the generated tables hold for that window: one
\* entry, or the entries of two tables for the same bytes
MaxWindowLen == 24

Inputs ==
  LET WindowLens ==
        {n \in 1..MaxWindowLen : n % 4 = 0 \/ n \in {1, 3, 11, 15}}
      PairWindows == {<<<<1, 1>>, 8>>, <<<<243, 2>>, 16>>, <<<<255, 0>>, 20>>}
      W(pat, len) == [pat |-> pat, len |-> len]
      In(T, w) == [T |-> T, w |-> w]
      One(t, opc) == [x \in {t} |-> opc]
      Singles == {One(t, MainOpcode(t)) : t \in MainTables \cup Fake16Tables}
                 \cup {One(h[1], h[2]) : h \in RichHits}
                 \cup {[x \in {} |-> Opc("", "")]}
      Pairs == {[x \in {a, b} |-> MainOpcode(x)] :
                  a \in MainTables, b \in MainTables}
  IN  {In(T, W(pat, len)) :
         T \in Singles, pat \in BytePatterns, len \in WindowLens}
      \cup {In(T, W(w[1], w[2])) : T \in Pairs, w \in PairWindows}

Call ==
  /\ pc = "idle"
  /\ pc' = "getInstruction"
  /\ \E in \in Inputs : Bytes_' = in.w /\ Tables' = in.T
  /\ MI' = EmptyInst
  /\ litEntry' = HasLiteral
  /\ UNCHANGED <<STI, MaxInstBytesNum, Bytes, HasLiteral, Literal, Literal64,
                 Res, IsSDWA, Size, trace, passes, snaps, convs>>
  /\ UNCHANGED kdVars
  /\ UNCHANGED <<opBuild, opSt, opArgs, opRet, opBefore, opCalls>>

\* getInstruction (lines 487-823)
getInstruction ==
  /\ pc = "getInstruction"
  /\ LET max == Min(TargetMaxInstBytes, Bytes_.len)
         Result(n) ==
           /\ Bytes' = n.st.off
           /\ HasLiteral' = n.st.hasLit
           /\ Literal' = n.st.lit
           /\ Literal64' = n.st.lit64
           /\ MI' = n.MI
           /\ Res' = n.Res
           /\ IsSDWA' = n.IsSDWA
           /\ Size' = IF n.Res = "Success" THEN max - BytesSize(n.st)
                      ELSE Min(4, Bytes_.len)
           /\ trace' = n.trace
           /\ passes' = n.passes
           /\ snaps' = n.snaps
           /\ convs' = n.convs
     IN  /\ MaxInstBytesNum' = max
         /\ Result(Normalize(Cascade(
              Tables,
              Ctx(DState(0, HasLiteral, Literal, Literal64, Bytes_.pat, max),
                  MI, "Fail", FALSE, FALSE, <<>>))))
  /\ pc' = "returned"
  /\ UNCHANGED <<STI, Bytes_, Tables, litEntry>>
  /\ UNCHANGED kdVars
  /\ UNCHANGED <<opBuild, opSt, opArgs, opRet, opBefore, opCalls>>

(***************************************************************************)
(* Kernel descriptors.  The 64-byte record is the set of its set bits,     *)
(* bit b of byte n being 8 * n + b; a buffer read from it is the set of    *)
(* its set bit positions.                                                  *)
(***************************************************************************)
\* amdhsa::kernel_descriptor_t (AMDHSAKernelDescriptor.h): the byte offsets
\* of the fields, and the bit fields <<shift, width>> of the words
amdhsa ==
  [GROUP_SEGMENT_FIXED_SIZE_OFFSET |-> 0,
   PRIVATE_SEGMENT_FIXED_SIZE_OFFSET |-> 4,
   KERNARG_SIZE_OFFSET |-> 8,
   RESERVED0_OFFSET |-> 12,
   KERNEL_CODE_ENTRY_BYTE_OFFSET_OFFSET |-> 16,
   RESERVED1_OFFSET |-> 24,
   COMPUTE_PGM_RSRC3_OFFSET |-> 44,
   COMPUTE_PGM_RSRC1_OFFSET |-> 48,
   COMPUTE_PGM_RSRC2_OFFSET |-> 52,
   KERNEL_CODE_PROPERTIES_OFFSET |-> 56,
   KERNARG_PRELOAD_OFFSET |-> 58,
   RESERVED3_OFFSET |-> 60,
   RSRC1_GRANULATED_WORKITEM_VGPR_COUNT |-> <<0, 6>>,
   RSRC1_GRANULATED_WAVEFRONT_SGPR_COUNT |-> <<6, 4>>,
   RSRC1_PRIORITY |-> <<10, 2>>,
   RSRC1_FLOAT_ROUND_MODE_32 |-> <<12, 2>>,
   RSRC1_FLOAT_ROUND_MODE_16_64 |-> <<14, 2>>,
   RSRC1_FLOAT_DENORM_MODE_32 |-> <<16, 2>>,
   RSRC1_FLOAT_DENORM_MODE_16_64 |-> <<18, 2>>,
   RSRC1_PRIV |-> <<20, 1>>,
   RSRC1_GFX6_GFX11_ENABLE_DX10_CLAMP |-> <<21, 1>>,
   RSRC1_GFX12_PLUS_ENABLE_WG_RR_EN |-> <<21, 1>>,
   RSRC1_DEBUG_MODE |-> <<22, 1>>,
   RSRC1_GFX6_GFX11_ENABLE_IEEE_MODE |-> <<23, 1>>,
   RSRC1_BULKY |-> <<24, 1>>,
   RSRC1_CDBG_USER |-> <<25, 1>>,
   RSRC1_GFX6_GFX8_RESERVED0 |-> <<26, 1>>,
   RSRC1_GFX9_PLUS_FP16_OVFL |-> <<26, 1>>,
   RSRC1_RESERVED1 |-> <<27, 2>>,
   RSRC1_GFX6_GFX9_RESERVED2 |-> <<29, 3>>,
   RSRC1_GFX10_PLUS_WGP_MODE |-> <<29, 1>>,
   RSRC1_GFX10_PLUS_MEM_ORDERED |-> <<30, 1>>,
   RSRC1_GFX10_PLUS_FWD_PROGRESS |-> <<31, 1>>,
   RSRC2_ENABLE_PRIVATE_SEGMENT |-> <<0, 1>>,
   RSRC2_ENABLE_SGPR_WORKGROUP_ID_X |-> <<7, 1>>,
   RSRC2_ENABLE_SGPR_WORKGROUP_ID_Y |-> <<8, 1>>,
   RSRC2_ENABLE_SGPR_WORKGROUP_ID_Z |-> <<9, 1>>,
   RSRC2_ENABLE_SGPR_WORKGROUP_INFO |-> <<10, 1>>,
   RSRC2_ENABLE_VGPR_WORKITEM_ID |-> <<11, 2>>,
   RSRC2_ENABLE_EXCEPTION_ADDRESS_WATCH |-> <<13, 1>>,
   RSRC2_ENABLE_EXCEPTION_MEMORY |-> <<14, 1>>,
   RSRC2_GRANULATED_LDS_SIZE |-> <<15, 9>>,
   RSRC2_EXCEPTION_FP_INVALID_OPERATION |-> <<24, 1>>,
   RSRC2_EXCEPTION_FP_DENORMAL_SOURCE |-> <<25, 1>>,
   RSRC2_EXCEPTION_FP_DIVISION_BY_ZERO |-> <<26, 1>>,
   RSRC2_EXCEPTION_FP_OVERFLOW |-> <<27, 1>>,
   RSRC2_EXCEPTION_FP_UNDERFLOW |-> <<28, 1>>,
   RSRC2_EXCEPTION_FP_INEXACT |-> <<29, 1>>,
   RSRC2_EXCEPTION_INT_DIVIDE_BY_ZERO |-> <<30, 1>>,
   RSRC2_RESERVED0 |-> <<31, 1>>,
   RSRC3_GFX90A_ACCUM_OFFSET |-> <<0, 6>>,
   RSRC3_GFX90A_RESERVED0 |-> <<6, 10>>,
   RSRC3_GFX90A_TG_SPLIT |-> <<16, 1>>,
   RSRC3_GFX90A_RESERVED1 |-> <<17, 15>>,
   RSRC3_GFX10_GFX11_SHARED_VGPR_COUNT |-> <<0, 4>>,
   RSRC3_GFX12_PLUS_RESERVED0 |-> <<0, 4>>,
   RSRC3_GFX10_RESERVED1 |-> <<4, 8>>,
   RSRC3_GFX11_INST_PREF_SIZE |-> <<4, 6>>,
   RSRC3_GFX11_TRAP_ON_START |-> <<10, 1>>,
   RSRC3_GFX11_TRAP_ON_END |-> <<11, 1>>,
   RSRC3_GFX12_PLUS_INST_PREF_SIZE |-> <<4, 8>>,
   RSRC3_GFX10_PLUS_RESERVED2 |-> <<12, 1>>,
   RSRC3_GFX10_GFX11_RESERVED3 |-> <<13, 1>>,
   RSRC3_GFX12_PLUS_GLG_EN |-> <<13, 1>>,
   RSRC3_GFX10_PLUS_RESERVED4 |-> <<14, 17>>,
   RSRC3_GFX10_RESERVED5 |-> <<31, 1>>,
   RSRC3_GFX11_PLUS_IMAGE_OP |-> <<31, 1>>,
   ENABLE_SGPR_PRIVATE_SEGMENT_BUFFER |-> <<0, 1>>,
   ENABLE_SGPR_DISPATCH_PTR |-> <<1, 1>>,
   ENABLE_SGPR_QUEUE_PTR |-> <<2, 1>>,
   ENABLE_SGPR_KERNARG_SEGMENT_PTR |-> <<3, 1>>,
   ENABLE_SGPR_DISPATCH_ID |-> <<4, 1>>,
   ENABLE_SGPR_FLAT_SCRATCH_INIT |-> <<5, 1>>,
   ENABLE_SGPR_PRIVATE_SEGMENT_SIZE |-> <<6, 1>>,
   KERNEL_CODE_PROPERTY_RESERVED0 |-> <<7, 3>>,
   ENABLE_WAVEFRONT_SIZE32 |-> <<10, 1>>,
   USES_DYNAMIC_STACK |-> <<11, 1>>,
   KERNEL_CODE_PROPERTY_RESERVED1 |-> <<12, 4>>,
   KERNARG_PRELOAD_SPEC_LENGTH |-> <<0, 7>>,
   KERNARG_PRELOAD_SPEC_OFFSET |-> <<7, 9>>]

\* DataExtractor::getU32 / getU16 / getBytes at byte offset off: the set bit
\* positions of the n bits read
ReadBits(bits, off, n) ==
  {b - 8 * off : b \in {x \in bits : 8 * off <= x /\ x < 8 * off + n}}

\* AMDHSA_BITS_GET(Buffer, MASK): the value of the field m = <<shift, width>>
RECURSIVE AMDHSA_BITS_GET(_, _)
AMDHSA_BITS_GET(Buffer, m) ==
  IF m[2] = 0 THEN 0
  ELSE (IF m[1] \in Buffer THEN 1 ELSE 0)
       + 2 * AMDHSA_BITS_GET(Buffer, <<m[1] + 1, m[2] - 1>>)

\* Buffer & MASK
BitsAnd(Buffer, m) == \E b \in Buffer : m[1] <= b /\ b < m[1] + m[2]

\* a uint32_t written to the stream in full: its two 16-bit halves
U32Text(Buffer) ==
  <<AMDHSA_BITS_GET(Buffer, <<0, 16>>), AMDHSA_BITS_GET(Buffer, <<16, 16>>)>>

\* AMDGPU::IsaInfo::getVGPREncodingGranule(&STI, EnableWavefrontSize32)
getVGPREncodingGranule(EWS32) ==
  IF hasFeature("GFX90AInsts") THEN 8
  ELSE IF (IF EWS32 = "nullopt" THEN hasFeature("WavefrontSize32")
           ELSE EWS32 = "true")
  THEN 8 ELSE 4

\* AMDGPU::IsaInfo::getSGPREncodingGranule(&STI)
getSGPREncodingGranule == 8

\* the statements of a field decoder: a line written to KdStream (the
\* directive, or the pseudo directive behind MAI.getCommentString(), and
\* the number as the two 16-bit halves of a uint32_t), or a test that
\* returns Fail
KdLine(DIRECTIVE, n) ==
  [k |-> "line", d |-> DIRECTIVE, v |-> <<n % Limb, n \div Limb>>,
   cm |-> FALSE, c |-> FALSE]

\* a test that never returns Fail
C10_CheckSkipped(c) ==
  [k |-> "fail", d |-> "", v |-> <<0, 0>>, cm |-> FALSE, c |-> FALSE]

KdFailIf(c) ==
  [k |-> "fail", d |-> "", v |-> <<0, 0>>, cm |-> FALSE, c |-> c]

\* PRINT_DIRECTIVE (lines 1817-1820, 2077-2081)
PRINT_DIRECTIVE(DIRECTIVE, Buffer, MASK) ==
  <<KdLine(DIRECTIVE, AMDHSA_BITS_GET(Buffer, MASK))>>

\* PRINT_PSEUDO_DIRECTIVE_COMMENT (lines 1821-1825)
PRINT_PSEUDO_DIRECTIVE_COMMENT(DIRECTIVE, Buffer, MASK) ==
  <<[KdLine(DIRECTIVE, AMDHSA_BITS_GET(Buffer, MASK)) EXCEPT !.cm = TRUE]>>

\* runs the statements from the i-th on: the status returned and the stream
RECURSIVE RunKd(_, _, _)
RunKd(stmts, i, KdStream) ==
  IF i > Len(stmts) THEN [Status |-> "Success", KdStream |-> KdStream]
  ELSE IF stmts[i].k = "fail"
  THEN IF stmts[i].c THEN [Status |-> "Fail", KdStream |-> KdStream]
       ELSE RunKd(stmts, i + 1, KdStream)
  ELSE RunKd(stmts, i + 1,
             Append(KdStream,
                    [d |-> stmts[i].d, v |-> stmts[i].v, cm |-> stmts[i].cm]))

\* statements that run whatever the condition
C28_Unconditional(c, stmts) == stmts

\* "if (c) statements"
KdIf(c, stmts) == IF c THEN stmts ELSE <<>>

\* the granule taken for the target's default wavefront width, whatever the
\* descriptor says
C9_DefaultWidth(GranulatedWorkitemVGPRCount, EWS32) ==
  (GranulatedWorkitemVGPRCount + 1) * getVGPREncodingGranule("nullopt")

\* the inverse of the assembler's computation (lines 1838-1843)
NextFreeVGPR(GranulatedWorkitemVGPRCount, EWS32) ==
  (GranulatedWorkitemVGPRCount + 1) * getVGPREncodingGranule(EWS32)

\* decodeCOMPUTE_PGM_RSRC1 (lines 1828-1937)
decodeCOMPUTE_PGM_RSRC1(FourByteBuffer, EWS32, KdStream) ==
  LET GET_FIELD(MASK) == AMDHSA_BITS_GET(FourByteBuffer, MASK)
      P(DIRECTIVE, MASK) == PRINT_DIRECTIVE(DIRECTIVE, FourByteBuffer, MASK)
      Set(MASK) == BitsAnd(FourByteBuffer, MASK)
      GranulatedWavefrontSGPRCount ==
        GET_FIELD(amdhsa.RSRC1_GRANULATED_WAVEFRONT_SGPR_COUNT)
      NextFreeSGPR ==
        (GranulatedWavefrontSGPRCount + 1) * getSGPREncodingGranule
  IN  RunKd(
        <<KdLine(".amdhsa_next_free_vgpr",
                 NextFreeVGPR(
                   GET_FIELD(amdhsa.RSRC1_GRANULATED_WORKITEM_VGPR_COUNT),
                   EWS32)),
          KdFailIf(isGFX10Plus /\ GranulatedWavefrontSGPRCount # 0),
          KdLine(".amdhsa_reserve_vcc", 0)>>
        \o KdIf(~hasArchitectedFlatScratch,
                <<KdLine(".amdhsa_reserve_flat_scratch", 0)>>)
        \o <<KdLine(".amdhsa_reserve_xnack_mask", 0),
             KdLine(".amdhsa_next_free_sgpr", NextFreeSGPR),
             KdFailIf(Set(amdhsa.RSRC1_PRIORITY))>>
        \o P(".amdhsa_float_round_mode_32", amdhsa.RSRC1_FLOAT_ROUND_MODE_32)
        \o P(".amdhsa_float_round_mode_16_64",
             amdhsa.RSRC1_FLOAT_ROUND_MODE_16_64)
        \o P(".amdhsa_float_denorm_mode_32",
             amdhsa.RSRC1_FLOAT_DENORM_MODE_32)
        \o P(".amdhsa_float_denorm_mode_16_64",
             amdhsa.RSRC1_FLOAT_DENORM_MODE_16_64)
        \o <<KdFailIf(Set(amdhsa.RSRC1_PRIV))>>
        \o KdIf(~isGFX12Plus,
                P(".amdhsa_dx10_clamp",
                  amdhsa.RSRC1_GFX6_GFX11_ENABLE_DX10_CLAMP))
        \o <<KdFailIf(Set(amdhsa.RSRC1_DEBUG_MODE))>>
        \o KdIf(~isGFX12Plus,
                P(".amdhsa_ieee_mode",
                  amdhsa.RSRC1_GFX6_GFX11_ENABLE_IEEE_MODE))
        \o <<KdFailIf(Set(amdhsa.RSRC1_BULKY)),
             KdFailIf(Set(amdhsa.RSRC1_CDBG_USER))>>
        \o KdIf(isGFX9Plus,
                P(".amdhsa_fp16_overflow", amdhsa.RSRC1_GFX9_PLUS_FP16_OVFL))
        \o <<KdFailIf(~isGFX9Plus /\ Set(amdhsa.RSRC1_GFX6_GFX8_RESERVED0)),
             KdFailIf(Set(amdhsa.RSRC1_RESERVED1)),
             KdFailIf(~isGFX10Plus /\ Set(amdhsa.RSRC1_GFX6_GFX9_RESERVED2))>>
        \o KdIf(isGFX10Plus,
                P(".amdhsa_workgroup_processor_mode",
                  amdhsa.RSRC1_GFX10_PLUS_WGP_MODE)
                \o P(".amdhsa_memory_ordered",
                     amdhsa.RSRC1_GFX10_PLUS_MEM_ORDERED)
                \o P(".amdhsa_forward_progress",
                     amdhsa.RSRC1_GFX10_PLUS_FWD_PROGRESS))
        \o KdIf(isGFX12Plus,
                P(".amdhsa_round_robin_scheduling",
                  amdhsa.RSRC1_GFX12_PLUS_ENABLE_WG_RR_EN)),
        1, KdStream)

\* decodeCOMPUTE_PGM_RSRC2 (lines 1940-1991)
decodeCOMPUTE_PGM_RSRC2(FourByteBuffer, KdStream) ==
  LET P(DIRECTIVE, MASK) == PRINT_DIRECTIVE(DIRECTIVE, FourByteBuffer, MASK)
      Set(MASK) == BitsAnd(FourByteBuffer, MASK)
  IN  RunKd(
        P(IF hasArchitectedFlatScratch THEN ".amdhsa_enable_private_segment"
          ELSE ".amdhsa_system_sgpr_private_segment_wavefront_offset",
          amdhsa.RSRC2_ENABLE_PRIVATE_SEGMENT)
        \o P(".amdhsa_system_sgpr_workgroup_id_x",
             amdhsa.RSRC2_ENABLE_SGPR_WORKGROUP_ID_X)
        \o P(".amdhsa_system_sgpr_workgroup_id_y",
             amdhsa.RSRC2_ENABLE_SGPR_WORKGROUP_ID_Y)
        \o P(".amdhsa_system_sgpr_workgroup_id_z",
             amdhsa.RSRC2_ENABLE_SGPR_WORKGROUP_ID_Z)
        \o P(".amdhsa_system_sgpr_workgroup_info",
             amdhsa.RSRC2_ENABLE_SGPR_WORKGROUP_INFO)
        \o P(".amdhsa_system_vgpr_workitem_id",
             amdhsa.RSRC2_ENABLE_VGPR_WORKITEM_ID)
        \o <<KdFailIf(Set(amdhsa.RSRC2_ENABLE_EXCEPTION_ADDRESS_WATCH)),
             KdFailIf(Set(amdhsa.RSRC2_ENABLE_EXCEPTION_MEMORY)),
             KdFailIf(Set(amdhsa.RSRC2_GRANULATED_LDS_SIZE))>>
        \o P(".amdhsa_exception_fp_ieee_invalid_op",
             amdhsa.RSRC2_EXCEPTION_FP_INVALID_OPERATION)
        \o P(".amdhsa_exception_fp_denorm_src",
             amdhsa.RSRC2_EXCEPTION_FP_DENORMAL_SOURCE)
        \o P(".amdhsa_exception_fp_ieee_div_zero",
             amdhsa.RSRC2_EXCEPTION_FP_DIVISION_BY_ZERO)
        \o P(".amdhsa_exception_fp_ieee_overflow",
             amdhsa.RSRC2_EXCEPTION_FP_OVERFLOW)
        \o P(".amdhsa_exception_fp_ieee_underflow",
             amdhsa.RSRC2_EXCEPTION_FP_UNDERFLOW)
        \o P(".amdhsa_exception_fp_ieee_inexact",
             amdhsa.RSRC2_EXCEPTION_FP_INEXACT)
        \o P(".amdhsa_exception_int_div_zero",
             amdhsa.RSRC2_EXCEPTION_INT_DIVIDE_BY_ZERO)
        \o <<KdFailIf(Set(amdhsa.RSRC2_RESERVED0))>>,
        1, KdStream)

\* decodeCOMPUTE_PGM_RSRC3 (lines 1994-2068)
decodeCOMPUTE_PGM_RSRC3(FourByteBuffer, EWS32, KdStream) ==
  LET P(DIRECTIVE, MASK) == PRINT_DIRECTIVE(DIRECTIVE, FourByteBuffer, MASK)
      C(DIRECTIVE, MASK) ==
        PRINT_PSEUDO_DIRECTIVE_COMMENT(DIRECTIVE, FourByteBuffer, MASK)
      Set(MASK) == BitsAnd(FourByteBuffer, MASK)
      GFX90A ==
        <<KdLine(".amdhsa_accum_offset",
                 (AMDHSA_BITS_GET(FourByteBuffer,
                                  amdhsa.RSRC3_GFX90A_ACCUM_OFFSET) + 1) * 4),
          KdFailIf(Set(amdhsa.RSRC3_GFX90A_RESERVED0))>>
        \o P(".amdhsa_tg_split", amdhsa.RSRC3_GFX90A_TG_SPLIT)
        \o <<KdFailIf(Set(amdhsa.RSRC3_GFX90A_RESERVED1))>>
      GFX10Plus ==
        \* bits [0-3]
        (IF ~isGFX12Plus
         THEN IF EWS32 # "true"
              THEN P(".amdhsa_shared_vgpr_count",
                     amdhsa.RSRC3_GFX10_GFX11_SHARED_VGPR_COUNT)
              ELSE C("SHARED_VGPR_COUNT",
                     amdhsa.RSRC3_GFX10_GFX11_SHARED_VGPR_COUNT)
         ELSE <<KdFailIf(Set(amdhsa.RSRC3_GFX12_PLUS_RESERVED0))>>)
        \* bits [4-11]
        \o (IF isGFX11
            THEN C("INST_PREF_SIZE", amdhsa.RSRC3_GFX11_INST_PREF_SIZE)
                 \o C("TRAP_ON_START", amdhsa.RSRC3_GFX11_TRAP_ON_START)
                 \o C("TRAP_ON_END", amdhsa.RSRC3_GFX11_TRAP_ON_END)
            ELSE IF isGFX12Plus
            THEN C("INST_PREF_SIZE", amdhsa.RSRC3_GFX12_PLUS_INST_PREF_SIZE)
            ELSE <<KdFailIf(Set(amdhsa.RSRC3_GFX10_RESERVED1))>>)
        \* bits [12]
        \o <<KdFailIf(Set(amdhsa.RSRC3_GFX10_PLUS_RESERVED2))>>
        \* bits [13]
        \o (IF isGFX12Plus
            THEN C("GLG_EN", amdhsa.RSRC3_GFX12_PLUS_GLG_EN)
            ELSE <<KdFailIf(Set(amdhsa.RSRC3_GFX10_GFX11_RESERVED3))>>)
        \* bits [14-30]
        \o <<KdFailIf(Set(amdhsa.RSRC3_GFX10_PLUS_RESERVED4))>>
        \* bits [31]
        \o (IF isGFX11Plus
            THEN C("IMAGE_OP", amdhsa.RSRC3_GFX11_PLUS_IMAGE_OP)
            ELSE <<KdFailIf(Set(amdhsa.RSRC3_GFX10_RESERVED5))>>)
  IN  RunKd(IF isGFX90A THEN GFX90A
            ELSE IF isGFX10Plus THEN GFX10Plus
            ELSE <<KdFailIf(FourByteBuffer # {})>>,
            1, KdStream)

\* decodeKernelDescriptorDirective (lines 2073-2220): the status, the stream
\* and the cursor behind the field read
decodeKernelDescriptorDirective(Cursor, Bytes_kd, EWS32, KdStream) ==
  LET FourByteBuffer == ReadBits(Bytes_kd, Cursor, 32)
      TwoByteBuffer == ReadBits(Bytes_kd, Cursor, 16)
      P(DIRECTIVE, MASK) == PRINT_DIRECTIVE(DIRECTIVE, TwoByteBuffer, MASK)
      Set(MASK) == BitsAnd(TwoByteBuffer, MASK)
      At(r, n) == [Status |-> r.Status, KdStream |-> r.KdStream,
                   Cursor |-> Cursor + n]
      U32(DIRECTIVE) ==
        [Status |-> "Success",
         KdStream |-> Append(KdStream, [d |-> DIRECTIVE,
                                        v |-> U32Text(FourByteBuffer),
                                        cm |-> FALSE]),
         Cursor |-> Cursor + 4]
      Reserved(n) ==
        At(RunKd(<<KdFailIf(ReadBits(Bytes_kd, Cursor, 8 * n) # {})>>, 1,
                 KdStream), n)
      Properties ==
        KdIf(~hasArchitectedFlatScratch,
             P(".amdhsa_user_sgpr_private_segment_buffer",
               amdhsa.ENABLE_SGPR_PRIVATE_SEGMENT_BUFFER))
        \o P(".amdhsa_user_sgpr_dispatch_ptr", amdhsa.ENABLE_SGPR_DISPATCH_PTR)
        \o P(".amdhsa_user_sgpr_queue_ptr", amdhsa.ENABLE_SGPR_QUEUE_PTR)
        \o P(".amdhsa_user_sgpr_kernarg_segment_ptr",
             amdhsa.ENABLE_SGPR_KERNARG_SEGMENT_PTR)
        \o P(".amdhsa_user_sgpr_dispatch_id", amdhsa.ENABLE_SGPR_DISPATCH_ID)
        \o KdIf(~hasArchitectedFlatScratch,
                P(".amdhsa_user_sgpr_flat_scratch_init",
                  amdhsa.ENABLE_SGPR_FLAT_SCRATCH_INIT))
        \o P(".amdhsa_user_sgpr_private_segment_size",
             amdhsa.ENABLE_SGPR_PRIVATE_SEGMENT_SIZE)
        \o <<KdFailIf(Set(amdhsa.KERNEL_CODE_PROPERTY_RESERVED0)),
             KdFailIf(isGFX9 /\ Set(amdhsa.ENABLE_WAVEFRONT_SIZE32))>>
        \o KdIf(isGFX10Plus,
                P(".amdhsa_wavefront_size32", amdhsa.ENABLE_WAVEFRONT_SIZE32))
        \o KdIf(CodeObjectVersion >= 5,
                P(".amdhsa_uses_dynamic_stack", amdhsa.USES_DYNAMIC_STACK))
        \o <<KdFailIf(Set(amdhsa.KERNEL_CODE_PROPERTY_RESERVED1))>>
      Preload ==
        KdIf(Set(amdhsa.KERNARG_PRELOAD_SPEC_LENGTH),
             P(".amdhsa_user_sgpr_kernarg_preload_length",
               amdhsa.KERNARG_PRELOAD_SPEC_LENGTH))
        \o KdIf(Set(amdhsa.KERNARG_PRELOAD_SPEC_OFFSET),
                P(".amdhsa_user_sgpr_kernarg_preload_offset",
                  amdhsa.KERNARG_PRELOAD_SPEC_OFFSET))
  IN  CASE Cursor = amdhsa.GROUP_SEGMENT_FIXED_SIZE_OFFSET ->
             U32(".amdhsa_group_segment_fixed_size")
        [] Cursor = amdhsa.PRIVATE_SEGMENT_FIXED_SIZE_OFFSET ->
             U32(".amdhsa_private_segment_fixed_size")
        [] Cursor = amdhsa.KERNARG_SIZE_OFFSET -> U32(".amdhsa_kernarg_size")
        [] Cursor = amdhsa.RESERVED0_OFFSET -> Reserved(4)
        [] Cursor = amdhsa.KERNEL_CODE_ENTRY_BYTE_OFFSET_OFFSET ->
             At(RunKd(<<>>, 1, KdStream), 8)
        [] Cursor = amdhsa.RESERVED1_OFFSET -> Reserved(20)
        [] Cursor = amdhsa.COMPUTE_PGM_RSRC3_OFFSET ->
             At(decodeCOMPUTE_PGM_RSRC3(FourByteBuffer, EWS32, KdStream), 4)
        [] Cursor = amdhsa.COMPUTE_PGM_RSRC1_OFFSET ->
             At(decodeCOMPUTE_PGM_RSRC1(FourByteBuffer, EWS32, KdStream), 4)
        [] Cursor = amdhsa.COMPUTE_PGM_RSRC2_OFFSET ->
             At(decodeCOMPUTE_PGM_RSRC2(FourByteBuffer, KdStream), 4)
        [] Cursor = amdhsa.KERNEL_CODE_PROPERTIES_OFFSET ->
             At(RunKd(Properties, 1, KdStream), 2)
        [] Cursor = amdhsa.KERNARG_PRELOAD_OFFSET ->
             At(RunKd(Preload, 1, KdStream), 2)
        [] Cursor = amdhsa.RESERVED3_OFFSET -> Reserved(4)
        \* llvm_unreachable("Unhandled index...")
        [] OTHER -> [Status |-> "unreachable", KdStream |-> KdStream,
                     Cursor |-> Cursor]

\* a loop that stops behind the first field
C13_OneField(C) == C < 4

\* "while (C && C.tell() < Bytes.size())" (line 2246) on the 64 bytes
KdLoopCond(C) == C < 64

\* the while loop of decodeKernelDescriptor (lines 2246-2255) from cursor C;
\* tr records the cursor, the status and the stream length of every step
RECURSIVE KdLoop(_, _, _, _, _)
KdLoop(C, Bytes_kd, EWS32, KdStream, tr) ==
  LET Step(r) ==
        IF r.Status # "Success"
        THEN [Status |-> r.Status, KdStream |-> r.KdStream,
              trace |-> Append(tr, [off |-> C, Status |-> r.Status,
                                    lines |-> Len(r.KdStream)])]
        ELSE KdLoop(r.Cursor, Bytes_kd, EWS32, r.KdStream,
                    Append(tr, [off |-> C, Status |-> r.Status,
                                lines |-> Len(r.KdStream)]))
  IN  IF ~KdLoopCond(C)
      THEN [Status |-> "Success", KdStream |-> KdStream, trace |-> tr]
      ELSE Step(decodeKernelDescriptorDirective(C, Bytes_kd, EWS32, KdStream))

\* the member as the call found it
C16_NoPreRead(Bytes_kd, EWS32) == EWS32

\* the look-up of .amdhsa_wavefront_size32 ahead of the pass (lines
\* 2233-2240): the member EnableWavefrontSize32 afterwards
PreReadWave32(Bytes_kd, EWS32) ==
  IF isGFX10Plus
  THEN IF AMDHSA_BITS_GET(
            ReadBits(Bytes_kd, amdhsa.KERNEL_CODE_PROPERTIES_OFFSET, 16),
            amdhsa.ENABLE_WAVEFRONT_SIZE32) = 1
       THEN "true" ELSE "false"
  ELSE EWS32

\* a decoder that writes the buffered lines also when a field failed
C30_FlushOnFail(KdName, Bytes_kd, BytesSize_kd, Address, EWS32) ==
  LET Done(r, ews) ==
        [Status |-> r.Status, EWS32 |-> ews,
         outs |-> IF r.Status = "Success"
                  THEN Append(r.KdStream, [d |-> ".end_amdhsa_kernel",
                                           v |-> <<0, 0>>, cm |-> FALSE])
                  ELSE r.KdStream,
         trace |-> r.trace]
      Decode(ews) ==
        Done(KdLoop(0, Bytes_kd, ews,
                    <<[d |-> ".amdhsa_kernel", v |-> <<0, 0>>, cm |-> FALSE,
                       name |-> KdName]>>, <<>>), ews)
  IN  IF BytesSize_kd # 64 \/ Address % 64 # 0
      THEN [Status |-> "Fail", EWS32 |-> EWS32, outs |-> <<>>, trace |-> <<>>]
      ELSE Decode(PreReadWave32(Bytes_kd, EWS32))

\* decodeKernelDescriptor (lines 2222-2259): the status, the member
\* EnableWavefrontSize32 afterwards, what is written to outs(), and tr
decodeKernelDescriptor(KdName, Bytes_kd, BytesSize_kd, Address, EWS32) ==
  LET Done(r, ews) ==
        [Status |-> r.Status, EWS32 |-> ews,
         outs |-> IF r.Status = "Success"
                  THEN Append(r.KdStream, [d |-> ".end_amdhsa_kernel",
                                           v |-> <<0, 0>>, cm |-> FALSE])
                  ELSE <<>>,
         trace |-> r.trace]
      Decode(ews) ==
        Done(KdLoop(0, Bytes_kd, ews,
                    <<[d |-> ".amdhsa_kernel", v |-> <<0, 0>>, cm |-> FALSE,
                       name |-> KdName]>>, <<>>), ews)
  IN  IF BytesSize_kd # 64 \/ Address % 64 # 0
      THEN [Status |-> "Fail", EWS32 |-> EWS32, outs |-> <<>>, trace |-> <<>>]
      ELSE Decode(PreReadWave32(Bytes_kd, EWS32))

\* every name taken for the name of a kernel descriptor
C12_AnyName(Name, Suffix) == TRUE

\* StringRef::ends_with and StringRef::drop_back on a name held as the
\* sequence of its characters
ends_with(Name, Suffix) ==
  Len(Name) >= Len(Suffix)
  /\ SubSeq(Name, Len(Name) - Len(Suffix) + 1, Len(Name)) = Suffix

drop_back(Name, N) == SubSeq(Name, 1, Len(Name) - N)

\* the arguments of one call.  The descriptors are three records, and two
\* of them with one more bit set, for every bit of the 64 bytes; the swept
\* records come under code object version 5, the kernel code properties
\* bits under version 4 as well, and every kind of symbol comes with a
\* short, a long and a misaligned region
KdInputs ==
  LET KdBases ==
        {{},
         {3, 35, 384, 386, 396, 402, 405, 423, 427, 448, 449, 451},
         {0, 352, 384, 385, 386, 387, 388, 389, 413, 414, 458}}
      KdSwept ==
        {{}, {3, 35, 384, 386, 396, 402, 405, 423, 427, 448, 449, 451}}
      KdRecords ==
        KdBases \cup {B \cup {b} : B \in KdSwept, b \in 0..(64 * 8 - 1)}
      KdSymbols ==
        {[Type |-> "STT_OBJECT", Name |-> <<"k", ".", "k", "d">>],
         [Type |-> "STT_OBJECT", Name |-> <<"k", "d">>],
         [Type |-> "STT_FUNC", Name |-> <<"k", ".", "k", "d">>],
         [Type |-> "STT_AMDGPU_HSA_KERNEL", Name |-> <<"k">>]}
  IN  {[sym |-> [Type |-> "STT_OBJECT", Name |-> <<"k", ".", "k", "d">>],
        bits |-> r, len |-> 64, addr |-> 0, cov |-> 5] : r \in KdRecords}
      \cup {[sym |-> [Type |-> "STT_OBJECT", Name |-> <<"k", ".", "k", "d">>],
             bits |-> B \cup X, len |-> 64, addr |-> 0, cov |-> 4] :
              B \in KdSwept, X \in {{}} \cup {{b} : b \in 448..463}}
      \cup {[sym |-> s, bits |-> r, len |-> n, addr |-> a, cov |-> 5] :
              s \in KdSymbols, r \in KdBases, n \in {64, 63, 65},
              a \in {0, 32, 128}}

\* calls of onSymbolStart made on one decoder
MaxKdCalls == 2

\* the caller (llvm-objdump) reaches a symbol and calls onSymbolStart; its
\* Size is what the call before left in it
KdCall ==
  /\ pc = "idle"
  /\ kdCalls < MaxKdCalls
  /\ \E in \in KdInputs :
       /\ Symbol' = in.sym
       /\ kd' = in.bits
       /\ kdLen' = in.len
       /\ KdAddress' = in.addr
       /\ CodeObjectVersion' = in.cov
  /\ kdStatus' = "none"
  /\ kdOut' = <<>>
  /\ kdTrace' = <<>>
  /\ kdEntry' = EnableWavefrontSize32
  /\ kdCalls' = kdCalls + 1
  /\ pc' = "onSymbolStart"
  /\ UNCHANGED <<STI, EnableWavefrontSize32, kdSize>>
  /\ UNCHANGED instVars
  /\ UNCHANGED <<opBuild, opSt, opArgs, opRet, opBefore, opCalls>>

\* onSymbolStart (lines 2261-2284); kdStatus "nullopt" is std::nullopt
onSymbolStart ==
  /\ pc = "onSymbolStart"
  /\ LET Result(r) ==
           /\ kdStatus' = r.Status
           /\ EnableWavefrontSize32' = r.EWS32
           /\ kdOut' = r.outs
           /\ kdTrace' = r.trace
     IN  IF Symbol.Type = "STT_AMDGPU_HSA_KERNEL"
         THEN /\ kdSize' = 256
              /\ kdStatus' = "Fail"
              /\ UNCHANGED <<EnableWavefrontSize32, kdOut, kdTrace>>
         ELSE IF Symbol.Type = "STT_OBJECT"
                 /\ ends_with(Symbol.Name, <<".", "k", "d">>)
         THEN /\ kdSize' = 64
              /\ Result(decodeKernelDescriptor(drop_back(Symbol.Name, 3), kd,
                                               kdLen, KdAddress,
                                               EnableWavefrontSize32))
         ELSE /\ kdStatus' = "nullopt"
              /\ UNCHANGED <<kdSize, EnableWavefrontSize32, kdOut, kdTrace>>
  /\ pc' = "idle"
  /\ UNCHANGED <<STI, Symbol, kd, kdLen, KdAddress, CodeObjectVersion,
                 kdCalls, kdEntry>>
  /\ UNCHANGED instVars
  /\ UNCHANGED <<opBuild, opSt, opArgs, opRet, opBefore, opCalls>>

(***************************************************************************)
(* The operand decoders, called by the generated decoder of one table      *)
(* attempt in the order of the operand fields of the encoding.             *)
(***************************************************************************)
\* operand decoder calls followed within one attempt
MaxOperands == 2

\* the calls the static decoders of lines 117-445 and the members
\* decodeNonVGPRSrcOp, decodeDstOp and decodeSDWAVopcDst make: decodeSrcOp
\* with the width, literal mode and immediate width of a DECODE_ macro and a
\* field value of its encoding size, createSRegOperand with a class of
\* getSgprClassId / getTtmpClassId and a value of its range, decodeIntImmed
\* with an inline integer
OpInputs(fn) ==
  LET Arg(g, w, rc, v, mand, iw, fp) ==
        [fn |-> g, Width |-> w, RC |-> rc, Val |-> v,
         MandatoryLiteral |-> mand, ImmWidth |-> iw, IsFP |-> fp]
      \* <<OpWidth, EncSize, bits or-ed in, MandatoryLiteral, ImmWidth, IsFP>>
      Callers ==
        {<<"OPW32", 7, 0, FALSE, 0, FALSE>>,
         <<"OPW64", 7, 0, FALSE, 0, FALSE>>,
         <<"OPW96", 7, 0, FALSE, 0, FALSE>>,
         <<"OPW128", 7, 0, FALSE, 0, FALSE>>,
         <<"OPW128", 10, 256, FALSE, 0, FALSE>>,
         <<"OPW32", 9, 512, FALSE, 0, FALSE>>,
         <<"OPW64", 10, 0, FALSE, 0, FALSE>>,
         <<"OPW64", 9, 0, FALSE, 64, FALSE>>,
         <<"OPW64", 9, 0, FALSE, 32, FALSE>>,
         <<"OPW32", 9, 0, FALSE, 16, FALSE>>,
         <<"OPW32", 9, 0, FALSE, 32, FALSE>>,
         <<"OPW16", 9, 0, FALSE, 16, FALSE>>,
         <<"OPW1024", 9, 0, FALSE, 32, FALSE>>,
         <<"OPW32", 9, 0, TRUE, 32, FALSE>>,
         <<"OPW64", 9, 0, FALSE, 64, TRUE>>,
         <<"OPW160", 8, 256, FALSE, 0, FALSE>>}
      Fields ==
        {0, 1, 101, 102, 105, 106, 107, 108, 111, 112, 123, 124, 125, 126,
         127, 128, 192, 193, 208, 209, 234, 235, 239, 240, 248, 249, 251, 254,
         255, 256, 511, 767, 768, 1023}
      Enc(c, f) == LET v == f % (2 ^ c[2])
                   IN  IF (v \div c[3]) % 2 = 1 THEN v ELSE v + c[3]
      Or(c, f) == IF c[3] = 0 THEN f % (2 ^ c[2]) ELSE Enc(c, f)
      SClasses == {"SGPR_32", "SGPR_64", "SGPR_96", "SGPR_128", "SGPR_256",
                   "SGPR_512"}
      TClasses == {"TTMP_32", "TTMP_64", "TTMP_128", "TTMP_256", "TTMP_512"}
  IN  CASE fn = "decodeSrcOp" ->
             {Arg(fn, c[1], "", Or(c, f), c[4], c[5], c[6]) :
                c \in Callers, f \in Fields}
        [] fn = "createSRegOperand" ->
             {Arg(fn, "", rc, v, FALSE, 0, FALSE) :
                rc \in SClasses, v \in {0, 1, 2, 3, 103, 104, 105}}
             \cup {Arg(fn, "", rc, v, FALSE, 0, FALSE) :
                     rc \in TClasses, v \in {0, 1, 2, 3, 4, 12, 15}}
        [] fn = "decodeIntImmed" ->
             {Arg(fn, "", "", v, FALSE, 0, FALSE) :
                v \in EncValues.INLINE_INTEGER_C_MIN
                      ..EncValues.INLINE_INTEGER_C_MAX}

\* tryDecodeInst (AMDGPUDisassembler.h) enters the generated decoder: it has
\* cleared HasLiteral, the instruction word is consumed and the rest of the
\* window is unread.  What the build does at an llvm_unreachable is fixed
\* here: it traps, or it goes on in the case the switch ends with.
OperandsBegin ==
  /\ pc = "idle"
  /\ pc' = "decodeInstruction"
  /\ opBuild' \in {"trap", "decodeSpecialReg64"}
  /\ \E w \in {<<4, 4>>, <<4, 8>>} :
       opSt' = DState(w[1], FALSE, Literal, Literal64, <<243, 2>>, w[2])
  /\ UNCHANGED <<STI, opArgs, opRet, opBefore, opCalls>>
  /\ UNCHANGED instVars
  /\ UNCHANGED kdVars

\* one operand decoder call of the generated decoder: r is what the decoder
\* returns for the arguments a
OperandCall(a, r) ==
  /\ opArgs' = a
  /\ opRet' = r.op
  /\ opSt' = r.st
  /\ opBefore' = opSt
  /\ opCalls' = opCalls + 1
  /\ UNCHANGED <<STI, pc, opBuild>>
  /\ UNCHANGED instVars
  /\ UNCHANGED kdVars

\* the operand behind llvm_unreachable("unexpected immediate type") in the
\* build at hand
AtUnreachable(r, Val, st) ==
  IF r.op # UnreachableOp THEN r
  ELSE IF opBuild = "decodeSpecialReg64" THEN decodeSpecialReg64(Val, st)
  ELSE r

\* decodeSrcOp (lines 1541-1557) called by a static decoder
DecodeSrcOp ==
  /\ pc = "decodeInstruction"
  /\ opCalls < MaxOperands
  /\ \E a \in OpInputs("decodeSrcOp") :
       OperandCall(a, AtUnreachable(
                        decodeSrcOp(a.Width, a.Val, a.MandatoryLiteral,
                                    a.ImmWidth, a.IsFP, opSt),
                        a.Val % 256, opSt))

\* createSRegOperand (lines 1241-1289) called by a member
CreateSRegOperand ==
  /\ pc = "decodeInstruction"
  /\ opCalls < MaxOperands
  /\ \E a \in OpInputs("createSRegOperand") :
       OperandCall(a, createSRegOperand(a.RC, a.Val, opSt))

\* decodeIntImmed (lines 1329-1337) called by a member
DecodeIntImmed ==
  /\ pc = "decodeInstruction"
  /\ opCalls < MaxOperands
  /\ \E a \in OpInputs("decodeIntImmed") :
       OperandCall(a, Ret(decodeIntImmed(a.Val), opSt))

\* the decoder as the constructor (lines 47-54) leaves it; it does not set
\* HasLiteral, Literal and Literal64, which hold whatever an earlier use of
\* the object left there
Init ==
  /\ STI \in Targets
  /\ pc = "idle"
  /\ Bytes_ = [pat |-> <<0, 0>>, len |-> 0]
  /\ Tables = [t \in {} |-> Opc("", "")]
  /\ MaxInstBytesNum = 0
  /\ Bytes = 0
  /\ HasLiteral \in BOOLEAN
  /\ Literal = (IF HasLiteral THEN <<48879, 57005>> ELSE <<0, 0>>)
  /\ Literal64 = ZExt32(Literal)
  /\ MI = EmptyInst
  /\ Res = "Fail"
  /\ IsSDWA = FALSE
  /\ Size = 0
  /\ trace = <<>>
  /\ passes = <<>>
  /\ snaps = <<>>
  /\ convs = <<>>
  /\ litEntry = FALSE
  /\ Symbol = [Type |-> "STT_NOTYPE", Name |-> <<>>]
  /\ kd = {}
  /\ kdLen = 0
  /\ KdAddress = 0
  /\ kdSize = 0
  /\ CodeObjectVersion = 5
  /\ kdCalls = 0
  /\ EnableWavefrontSize32 = "nullopt"
  /\ kdStatus = "none"
  /\ kdOut = <<>>
  /\ kdTrace = <<>>
  /\ kdEntry = "nullopt"
  /\ opBuild = "trap"
  /\ opSt = DState(0, FALSE, <<0, 0>>, I64(0), <<0, 0>>, 0)
  /\ opArgs = [fn |-> "", Width |-> "", RC |-> "", Val |-> 0,
               MandatoryLiteral |-> FALSE, ImmWidth |-> 0, IsFP |-> FALSE]
  /\ opRet = InvalidOp
  /\ opBefore = DState(0, FALSE, <<0, 0>>, I64(0), <<0, 0>>, 0)
  /\ opCalls = 0

Next == Call \/ getInstruction

Spec == Init /\ [][Next]_vars

NextKd == KdCall \/ onSymbolStart

SpecKd == Init /\ [][NextKd]_vars

NextOp == OperandsBegin \/ DecodeSrcOp \/ CreateSRegOperand \/ DecodeIntImmed

SpecOp == Init /\ [][NextOp]_vars

(***************************************************************************)
(* Properties of getInstruction, stated on the state it returns in.        *)
(***************************************************************************)

\* C1: whenever getInstruction returns Fail on a window of L >= 1 bytes
\* (a window shorter than 4 bytes, for which no table is tried, included),
\* the Size it reports is min(4, L), and so is never 0.
C1_FailSize ==
  (pc = "returned" /\ Res = "Fail" /\ Bytes_.len >= 1)
    => /\ Size = (IF Bytes_.len < 4 THEN Bytes_.len ELSE 4)
       /\ Size # 0

C1_ShortWindowFail ==
  pc = "returned" /\ Res = "Fail" /\ Bytes_.len = 3 /\ Size = 3
  /\ trace = <<>>

\* C2: whenever getInstruction returns Success, the number of operands of
\* the returned instruction is the number of operands the schema of the
\* returned opcode declares, after the table match and every post-decode
\* pass that applied.
C2_OperandCount ==
  (pc = "returned" /\ Res = "Success")
    => Len(MI.ops) = DescNumOps(MI.opc)

C2_ExportNormalized ==
  pc = "returned" /\ Res = "Success" /\ MI.opc.base = "EXP"
  /\ hasFeature("GFX11Insts")
  /\ Len(MI.ops) = DescNumOps(MI.opc)

\* C3: in one decode attempt with two mandatory literal references (the
\* GFX1196 entry V_DUAL_FMAAK_X_FMAMK, literal fields at bytes 8 and 4):
\* when both carry the same value and the attempt succeeds, both operands
\* are that value and so is the pending literal; when the second differs
\* from the first, the attempt fails and the stored literal is still the
\* first value, not the second.
C3_MandatoryLiteralTwice ==
  \A i \in 1..Len(trace) :
    (pc = "returned" /\ trace[i].t = "GFX1196" /\ trace[i].r # "Discard"
     /\ "GFX1196" \in DOMAIN Tables
     /\ Tables["GFX1196"].base = "V_DUAL_FMAAK_X_FMAMK"
     /\ checkDecoderPredicate(Tables["GFX1196"]))
      => LET first == WordAt(Bytes_.pat, 8)
             second == WordAt(Bytes_.pat, 4)
             immX == getNamedOperandIdx(MI.opc, "imm") + 1
             immY == getNamedOperandIdx(MI.opc, "immY") + 1
         IN  IF first = second
             THEN trace[i].r = "Success"
                    => /\ Res = "Success"
                       /\ MI.ops[immX] = ImmOp(ZExt32(first))
                       /\ MI.ops[immY] = ImmOp(ZExt32(first))
                       /\ HasLiteral /\ Literal = first
             ELSE /\ trace[i].r = "Fail"
                  /\ trace[i].hasLit => trace[i].lit = first

C3_SameLiteralTwice ==
  pc = "returned" /\ Res = "Success"
  /\ MI.opc.base = "V_DUAL_FMAAK_X_FMAMK"
  /\ WordAt(Bytes_.pat, 8) = WordAt(Bytes_.pat, 4)
  /\ HasLiteral /\ Literal = WordAt(Bytes_.pat, 8)

\* C4: every length hypothesis reads from offset 0 of the original window,
\* so its first table is consulted with exactly the bytes of the
\* hypothesis' width consumed; bytes read by an attempt that failed or was discarded are
\* never counted; on Success, Size is the width of the winning encoding,
\* plus 4 when the instruction read a trailing literal, plus 4*ceil(N/4)
\* for N NSA address bytes, and is at most min(TargetMaxInstBytes, L).
C4_SizeOfWinner ==
  (pc = "returned" /\ Res = "Success")
    => LET w == trace[Len(trace)]
           opc == Tables[w.t]
           fields == EntryFields(opc)
           ReadsLiteral ==
             \E k \in 1..Len(fields) :
               /\ fields[k].d = "src" /\ ~fields[k].mand /\ fields[k].hi = 0
               /\ ByteAt(Bytes_.pat, fields[k].pos) = 255
           VAddr0Idx == getNamedOperandIdx(opc, "vaddr0")
           N == IF "MIMG" \in TSFlags(opc) /\ VAddr0Idx >= 0
                THEN Max(0, getNamedOperandIdx(opc, "srsrc") - VAddr0Idx - 1)
                ELSE 0
       IN  /\ \A i \in 1..Len(trace) :
                (i = 1 \/ TableWidth(trace[i].t) # TableWidth(trace[i - 1].t))
                  => trace[i].off = TableWidth(trace[i].t)
           /\ Size = TableWidth(w.t) + (IF ReadsLiteral THEN 4 ELSE 0)
                       + 4 * ((N + 3) \div 4)
           /\ Size <= Min(TargetMaxInstBytes, Bytes_.len)

\* C5: a DPP8 match (or a GFX10_B64 match with a dpp8 operand) whose
\* validity fixup reports SoftFail is discarded and the cascade goes on with
\* the next table: the discarded instruction is never returned, and SoftFail
\* neither ends the cascade nor is the returned status.
C5_SoftFailDiscarded ==
  pc = "returned"
    => /\ Res \in {"Success", "Fail"}
       /\ \A i \in 1..Len(trace) :
            /\ (trace[i].r = "Success" /\ i < Len(trace))
                 => /\ trace[i + 1].r = "Discard"
                    /\ i + 1 < Len(trace)
                    /\ trace[i + 2].r # "Discard"
            /\ trace[i].r = "Discard"
                 => i > 1 /\ trace[i - 1].r = "Success"
                    /\ trace[i - 1].t = trace[i].t
       /\ (trace # <<>> /\ trace[Len(trace)].r = "Success"
           /\ hasNamedOperand(MI.opc, "dpp8"))
            => isValidDPP8(MI)
       /\ (trace = <<>> \/ trace[Len(trace)].r # "Success")
            => Res = "Fail" /\ MI = EmptyInst

C5_LaterTableWins ==
  pc = "returned" /\ Res = "Success"
  /\ \E i \in 1..Len(trace) : trace[i].r = "Discard"

\* C6: the tables are consulted in one fixed order, each behind its gate
\* (generation, feature, bytes available); the returned instruction is that
\* of the first table in this order that matches and passes its validity
\* check; no table is consulted after the winner, and a gated table is never
\* consulted when its gate is closed.
C6_FirstMatchWins ==
  pc = "returned"
    => LET RowIdx(t) == CHOOSE k \in 1..Len(AllRows) :
                          t \in {AllRows[k].t, AllRows[k].t2}
           Open(k) ==
             /\ AllRows[k].gate = "" \/ hasFeature(AllRows[k].gate)
             /\ MaxInstBytesNum >= TableWidth(AllRows[k].t)
             /\ TableWidth(AllRows[k].t) = 12 => isGFX11Plus
           Tried == SelectSeq(trace, LAMBDA e : e.r # "Discard")
           Idx == [i \in 1..Len(Tried) |-> RowIdx(Tried[i].t)]
           Won == trace # <<>> /\ trace[Len(trace)].r = "Success"
           Last == IF Won THEN RowIdx(trace[Len(trace)].t) ELSE Len(AllRows)
           Ordered(T, R) ==
             \A i \in 1..Len(T) :
               /\ Open(R[i])
               /\ i < Len(T)
                    => \/ R[i] < R[i + 1]
                       \/ /\ R[i] = R[i + 1]
                          /\ T[i].t = AllRows[R[i]].t
                          /\ T[i + 1].t = AllRows[R[i]].t2
                          /\ T[i].t # T[i + 1].t
                          /\ T[i].r = "Fail"
       IN  /\ Ordered(Tried, Idx)
           /\ \A k \in 1..Last :
                (Open(k) /\ (MaxInstBytesNum >= 4))
                  => \E i \in 1..Len(Tried) : Tried[i].t = AllRows[k].t
           /\ \A i \in 1..Len(trace) :
                (trace[i].r = "Success" /\ i < Len(trace))
                  => trace[i + 1].r = "Discard"
           /\ Won => /\ MI.opc.base = Tables[trace[Len(trace)].t].base
                     /\ MI.opc.enc = Tables[trace[Len(trace)].t].enc
           /\ ~Won => Res = "Fail"

C6_EarlierOfTwoWins ==
  pc = "returned" /\ Res = "Success"
  /\ \E a \in DOMAIN Tables, b \in DOMAIN Tables :
       /\ a # b
       /\ trace[Len(trace)].t = a
       /\ \A i \in 1..Len(trace) : trace[i].t # b

\* C7: for a matched MIMG instruction whose schema has N >= 1 address
\* operands between vaddr0 and srsrc: with at least 4*ceil(N/4) bytes left
\* behind the main encoding, the decode succeeds, the address operands
\* behind vaddr0 are vector registers, the i-th named by the i-th trailing
\* byte, and exactly 4*ceil(N/4) bytes are consumed; with fewer bytes the
\* status is Fail, no operand is inserted and no trailing byte is consumed.
C7_NSAExpansion ==
  (pc = "returned" /\ trace # <<>> /\ trace[Len(trace)].r = "Success"
   /\ "MIMG" \in TSFlags(Tables[trace[Len(trace)].t]))
    => LET opc0 == Tables[trace[Len(trace)].t]
           VAddr0Idx == getNamedOperandIdx(opc0, "vaddr0")
           N == getNamedOperandIdx(opc0, "srsrc") - VAddr0Idx - 1
           Need == 4 * ((N + 3) \div 4)
           Kept == getNamedOperandIdx(MI.opc, "srsrc") - VAddr0Idx - 1
       IN  (VAddr0Idx >= 0 /\ N >= 1)
             => IF MaxInstBytesNum - 8 >= Need
                THEN /\ Res = "Success"
                     /\ Size = 8 + Need
                     /\ \A i \in 1..Kept :
                          /\ isReg(MI.ops[VAddr0Idx + 1 + i])
                          /\ IsVectorClass(MI.ops[VAddr0Idx + 1 + i].rc)
                          /\ MI.ops[VAddr0Idx + 1 + i].v[1]
                               = ByteAt(Bytes_.pat, 8 + i - 1)
                ELSE /\ Res = "Fail"
                     /\ Len(MI.ops) = Len(EntryFields(opc0))
                     /\ Bytes = 8

C9_NextFreeVGPR ==
  (pc = "idle" /\ kdStatus = "Success") =>
    LET Bit(b, w) == IF b \in kd THEN w ELSE 0
        G == Bit(384, 1) + Bit(385, 2) + Bit(386, 4) + Bit(387, 8)
             + Bit(388, 16) + Bit(389, 32)
        Wave32 == IF isGFX10Plus THEN 458 \in kd
                  ELSE "WavefrontSize32" \in STI.feats
        granule == IF "GFX90AInsts" \in STI.feats \/ Wave32 THEN 8 ELSE 4
        Lines == {i \in 1..Len(kdOut) : kdOut[i].d = ".amdhsa_next_free_vgpr"}
    IN  /\ Cardinality(Lines) = 1
        /\ \A i \in Lines : kdOut[i].v = <<(G + 1) * granule, 0>>
                            /\ ~kdOut[i].cm

\* a wave64 descriptor on a target whose default width is wave32, decoded
\* after a wave32 descriptor on the same decoder: G = 5, granule 4
C9_Wave64AfterWave32 ==
  /\ pc = "idle" /\ kdStatus = "Success" /\ kdCalls = 2
  /\ "WavefrontSize32" \in STI.feats /\ isGFX10Plus
  /\ kd = {3, 35, 384, 386, 396, 402, 405, 423, 427, 448, 449, 451}
  /\ EnableWavefrontSize32 = "false" /\ kdEntry = "true"
  /\ \E i \in 1..Len(kdOut) :
       kdOut[i].d = ".amdhsa_next_free_vgpr" /\ kdOut[i].v = <<24, 0>>

\* C10: in a 64-byte kernel descriptor that decodes with Success without it,
\* one set bit that is reserved for the target makes the decode return Fail
\* and print nothing: any bit of bytes 12-15, 24-43 and 60-63, the reserved
\* masks of COMPUTE_PGM_RSRC1 (bits 27-28, bit 26 before GFX9, bits 29-31
\* before GFX10), of COMPUTE_PGM_RSRC2 (bit 31), of COMPUTE_PGM_RSRC3 (the
\* whole word before GFX10 without GFX90A instructions, bits 6-15 and 17-31
\* with them, on GFX10+ bits 12 and 14-30, bits 4-11, 13 and 31 on GFX10,
\* bit 13 on GFX11, bits 0-3 on GFX12) and of the kernel code properties
\* (bits 7-9 and 12-15, bit 10 on GFX9).
C10_ReservedBitFails ==
  (/\ pc = "idle" /\ kdStatus \in {"Success", "Fail"}
   /\ Symbol.Type = "STT_OBJECT" /\ kdLen = 64 /\ KdAddress % 64 = 0) =>
    LET In(b, lo, hi) == lo <= b /\ b <= hi
        R1(b) == \/ In(b, 27, 28)
                 \/ (~isGFX9Plus /\ b = 26)
                 \/ (~isGFX10Plus /\ In(b, 29, 31))
        R3(b) == IF "GFX90AInsts" \in STI.feats
                 THEN In(b, 6, 15) \/ In(b, 17, 31)
                 ELSE IF isGFX10Plus
                 THEN \/ b = 12 \/ In(b, 14, 30)
                      \/ (isGFX10 /\ (In(b, 4, 11) \/ b = 13 \/ b = 31))
                      \/ (isGFX11 /\ b = 13)
                      \/ (isGFX12Plus /\ In(b, 0, 3))
                 ELSE TRUE
        KP(b) == In(b, 7, 9) \/ In(b, 12, 15) \/ (isGFX9 /\ b = 10)
        Reserved(b) ==
          \/ In(b, 96, 127) \/ In(b, 192, 351) \/ In(b, 480, 511)
          \/ (In(b, 352, 383) /\ R3(b - 352))
          \/ (In(b, 384, 415) /\ R1(b - 384))
          \/ b = 447
          \/ (In(b, 448, 463) /\ KP(b - 448))
        Base(b) == decodeKernelDescriptor(<<"k">>, kd \ {b}, 64, KdAddress,
                                          "nullopt").Status
    IN  \A b \in kd :
          (Reserved(b) /\ Base(b) = "Success") =>
            (kdStatus = "Fail" /\ kdOut = <<>>)

\* the common record with bit 12 of the kernel code properties set: every
\* field before it decodes and the last check but one returns Fail
C10_ReservedPropertyBit ==
  /\ pc = "idle" /\ kdStatus = "Fail" /\ kdSize = 64
  /\ kd = {3, 35, 384, 386, 396, 402, 405, 423, 427, 448, 449, 451, 460}
  /\ Len(kdTrace) = 10
  /\ kdTrace[10].off = 56 /\ kdTrace[10].Status = "Fail"
  /\ kdTrace[9].Status = "Success"
  /\ decodeKernelDescriptor(<<"k">>, kd \ {460}, 64, 0, "nullopt").Status
       = "Success"

\* C11: in a kernel descriptor that decodes with Success no bit is set that
\* the target has no directive for: outside the fields that print a line
\* (and the fields the assembler derives: the entry offset in bytes 16-23,
\* the user SGPR count and the trap handler bit in bits 1-6 of
\* COMPUTE_PGM_RSRC2) every bit is zero; in particular the wave32 bit
\* (properties bit 10) before GFX9, the dynamic stack bit (properties bit 11)
\* under a code object version below 5, bits 21 and 23 of COMPUTE_PGM_RSRC1
\* on GFX12+, and the kernarg preload word (bytes 58-59) on a target without
\* kernarg preload are zero.
C11_UntranslatedBitsZero ==
  (pc = "idle" /\ kdStatus = "Success") =>
    LET In(b, lo, hi) == lo <= b /\ b <= hi
        R1(b) == \/ In(b, 0, 9) \/ In(b, 12, 19)
                 \/ (~isGFX12Plus /\ b \in {21, 23})
                 \/ (isGFX9Plus /\ b = 26)
                 \/ (isGFX10Plus /\ In(b, 29, 31))
        R2(b) == In(b, 0, 12) \/ In(b, 24, 30)
        R3(b) == IF "GFX90AInsts" \in STI.feats THEN In(b, 0, 5) \/ b = 16
                 ELSE /\ isGFX10Plus
                      /\ \/ (~isGFX12Plus /\ In(b, 0, 3))
                         \/ (isGFX11Plus /\ (In(b, 4, 11) \/ b = 31))
                         \/ (isGFX12Plus /\ b = 13)
        KP(b) == \/ b \in {1, 2, 3, 4, 6}
                 \/ (~hasArchitectedFlatScratch /\ b \in {0, 5})
                 \/ (isGFX10Plus /\ b = 10)
                 \/ (CodeObjectVersion >= 5 /\ b = 11)
        Translated(b) ==
          \/ In(b, 0, 95) \/ In(b, 128, 191)
          \/ (In(b, 352, 383) /\ R3(b - 352))
          \/ (In(b, 384, 415) /\ R1(b - 384))
          \/ (In(b, 416, 447) /\ R2(b - 416))
          \/ (In(b, 448, 463) /\ KP(b - 448))
          \/ (In(b, 464, 479) /\ hasKernargPreload)
    IN  \A b \in kd : Translated(b)

\* C12: onSymbolStart on an object symbol whose name ends in ".kd" sets Size
\* to 64 and returns Success or Fail; when the region is not 64 bytes long
\* or its address is no multiple of 64 it returns Fail before any field is
\* read (nothing decoded, nothing printed, the wavefront flag as it was); on
\* a code object V2 kernel symbol it sets Size to 256 and returns Fail; on
\* any other symbol it returns no status and leaves Size as it was.
C12_SymbolSizes ==
  [][onSymbolStart =>
       LET n == Len(Symbol.Name)
           IsKd == /\ Symbol.Type = "STT_OBJECT"
                   /\ n >= 3
                   /\ Symbol.Name[n - 2] = "." /\ Symbol.Name[n - 1] = "k"
                   /\ Symbol.Name[n] = "d"
       IN  IF Symbol.Type = "STT_AMDGPU_HSA_KERNEL"
           THEN kdSize' = 256 /\ kdStatus' = "Fail" /\ kdOut' = <<>>
           ELSE IF IsKd
           THEN /\ kdSize' = 64
                /\ kdStatus' \in {"Success", "Fail"}
                /\ (kdLen # 64 \/ KdAddress % 64 # 0)
                     => /\ kdStatus' = "Fail"
                        /\ kdTrace' = <<>> /\ kdOut' = <<>>
                        /\ EnableWavefrontSize32' = EnableWavefrontSize32
           ELSE /\ kdStatus' = "nullopt"
                /\ kdSize' = kdSize
                /\ kdOut' = <<>>]_vars

\* a descriptor symbol at an address that is not 64-aligned, after a code
\* object V2 kernel symbol left Size at 256
C12_MisalignedDescriptor ==
  /\ pc = "idle" /\ kdCalls = 2
  /\ Symbol.Type = "STT_OBJECT" /\ Len(Symbol.Name) = 4
  /\ kdLen = 64 /\ KdAddress = 32 /\ kd # {}
  /\ kdStatus = "Fail" /\ kdSize = 64 /\ kdTrace = <<>>

\* C13: the pass of decodeKernelDescriptor over a 64-byte, 64-aligned region
\* visits the offsets 0, 4, 8, 12, 16, 24, 44, 48, 52, 56, 58, 60 in this
\* order and each at most once: the offsets visited are an initial part of
\* this list, none of them reaches the unreachable default, every step but
\* the last reports Success, the pass ends with Success exactly when all
\* twelve were visited and otherwise at the first field that reports Fail.
C13_AscendingPass ==
  (/\ pc = "idle" /\ kdStatus \in {"Success", "Fail"}
   /\ Symbol.Type = "STT_OBJECT" /\ kdLen = 64 /\ KdAddress % 64 = 0) =>
    LET Order == <<0, 4, 8, 12, 16, 24, 44, 48, 52, 56, 58, 60>>
        n == Len(kdTrace)
    IN  /\ 1 <= n /\ n <= Len(Order)
        /\ \A i \in 1..n :
             /\ kdTrace[i].off = Order[i]
             /\ kdTrace[i].Status \in {"Success", "Fail"}
             /\ i < n => kdTrace[i].Status = "Success"
             /\ i < n => kdTrace[i + 1].off >= kdTrace[i].off + 2
             /\ i < n => kdTrace[i].lines <= kdTrace[i + 1].lines
        /\ kdTrace[n].Status = kdStatus
        /\ kdStatus = "Success" <=> (n = Len(Order) /\ kdTrace[n].Status = "Success")

\* a pass that ends with Fail at COMPUTE_PGM_RSRC3 (offset 44), the seventh
\* field, behind the 20 reserved bytes
C13_StopsAtRsrc3 ==
  /\ pc = "idle" /\ kdStatus = "Fail" /\ kdSize = 64
  /\ Len(kdTrace) = 7 /\ kdTrace[7].off = 44 /\ kdTrace[6].off = 24
  /\ kdOut = <<>>

\* C16: what onSymbolStart returns and prints for a kernel descriptor does
\* not depend on the descriptors decoded before it on the same decoder: the
\* status, the text and the fields visited are those of a decoder that has
\* decoded nothing yet; on GFX10+ the wavefront flag after a pass is the
\* descriptor's own wave32 bit (bit 10 of the kernel code properties), and
\* before GFX12 the shared VGPR count of COMPUTE_PGM_RSRC3 is printed as a
\* comment for wave32 and as a directive for wave64.
C16_OwnWavefrontBit ==
  (/\ pc = "idle" /\ kdStatus \in {"Success", "Fail"}
   /\ Symbol.Type = "STT_OBJECT") =>
    LET Fresh(r) == /\ kdStatus = r.Status
                    /\ kdOut = r.outs
                    /\ kdTrace = r.trace
        Shared == {i \in 1..Len(kdOut) :
                     kdOut[i].d \in {".amdhsa_shared_vgpr_count",
                                     "SHARED_VGPR_COUNT"}}
    IN  /\ Fresh(decodeKernelDescriptor(<<"k">>, kd, kdLen, KdAddress,
                                        "nullopt"))
        /\ (isGFX10Plus /\ kdTrace # <<>>)
             => EnableWavefrontSize32
                  = (IF 458 \in kd THEN "true" ELSE "false")
        /\ ~isGFX10Plus => EnableWavefrontSize32 = "nullopt"
        /\ (kdStatus = "Success" /\ isGFX10Plus /\ ~isGFX12Plus)
             => /\ Cardinality(Shared) = 1
                /\ \A i \in Shared :
                     /\ kdOut[i].cm = (458 \in kd)
                     /\ kdOut[i].d = (IF 458 \in kd THEN "SHARED_VGPR_COUNT"
                                      ELSE ".amdhsa_shared_vgpr_count")

\* a wave64 descriptor decoded on a decoder whose flag said wave32 when the
\* call began: the shared VGPR count is a directive
C16_Wave64BehindWave32 ==
  /\ pc = "idle" /\ kdStatus = "Success" /\ kdCalls = 2
  /\ isGFX10Plus /\ ~isGFX12Plus
  /\ kdEntry = "true" /\ ~(458 \in kd) /\ 352 \in kd
  /\ \E i \in 1..Len(kdOut) :
       /\ kdOut[i].d = ".amdhsa_shared_vgpr_count"
       /\ kdOut[i].v = <<1, 0>> /\ ~kdOut[i].cm

\* C15: the pending literal lives for one call of getInstruction: whatever
\* HasLiteral, Literal and Literal64 hold when the call begins (a literal of
\* an earlier instruction, or of an attempt that was discarded), the status,
\* the instruction and Size returned are those a decoder with no literal
\* recorded returns for the same bytes.
C15_LiteralScopedToCall ==
  pc = "returned"
    => LET Fresh(n) ==
             /\ Res = n.Res
             /\ MI = n.MI
             /\ Size = (IF n.Res = "Success"
                        THEN MaxInstBytesNum - BytesSize(n.st)
                        ELSE Min(4, Bytes_.len))
       IN  Fresh(Normalize(Cascade(
             Tables,
             Ctx(DState(0, FALSE, <<0, 0>>, I64(0), Bytes_.pat,
                        MaxInstBytesNum),
                 EmptyInst, "Fail", FALSE, FALSE, <<>>))))

\* a decoder that held the literal 0xDEADBEEF returns an instruction with the
\* literal read from its own bytes
C15_StaleLiteralReplaced ==
  /\ pc = "returned" /\ Res = "Success"
  /\ litEntry
  /\ \E i \in 1..Len(trace) : trace[i].r = "Discard"
  /\ HasLiteral /\ Literal # <<48879, 57005>>
  /\ \E i \in 1..Len(MI.ops) : MI.ops[i] = ImmOp(ZExt32(Literal))

\* C17 as claimed: the fix-ups that ran on the returned instruction ran in
\* the order literal splice, MIMG resolution, NSA expansion, elided-field
\* restoration, tied destination, modifier reconstruction.
C17_ClaimedOrder ==
  pc = "returned"
    => LET Rank(p) ==
             CASE p = "convertFMAanyK" -> 1
               [] p = "convertMIMGInst" -> 2
               [] p = "NSA" -> 3
               [] p \in {"src2_modifiers", "gds", "cpol", "tfe", "swz",
                         "convertEXPInst", "convertSDWAInst"} -> 4
               [] p = "vdst_in" -> 5
               [] p = "convertVINTERPInst" -> 6
       IN  \A i \in 1..(Len(passes) - 1) :
             Rank(passes[i]) <= Rank(passes[i + 1])

\* C17, amended: the fix-ups that ran on the returned instruction ran in
\* the order src2_modifiers, gds, cpol, tfe, swz (elided fields), NSA
\* expansion, MIMG resolution, export fields, VINTERP op_sel, SDWA fields,
\* tied destination, literal splice; none ran twice, and none ran after one
\* that failed.
C17_PassOrder ==
  pc = "returned"
    => LET Order == <<"src2_modifiers", "gds", "cpol", "tfe", "swz", "NSA",
                      "convertMIMGInst", "convertEXPInst",
                      "convertVINTERPInst", "convertSDWAInst", "vdst_in",
                      "convertFMAanyK">>
           Rank(p) == CHOOSE k \in 1..Len(Order) : Order[k] = p
       IN  /\ \A i \in 1..Len(passes) :
                \E k \in 1..Len(Order) : Order[k] = passes[i]
           /\ \A i \in 1..(Len(passes) - 1) :
                Rank(passes[i]) < Rank(passes[i + 1])
           /\ (Res = "Fail" /\ passes # <<>>)
                => passes[Len(passes)] \in {"NSA", "convertMIMGInst"}

\* an image instruction with NSA addresses: the addresses are spliced in,
\* then the opcode is resolved
C17_NSAThenResolve ==
  /\ pc = "returned" /\ Res = "Success"
  /\ passes = <<"NSA", "convertMIMGInst">>

\* C20: decodeIntImmed returns, for a raw value from 128 to 192, the integer
\* value - 128 (0..64) and, for a raw value from 193 to 208, the integer
\* 192 - value (-1..-16), as a 64-bit two's complement immediate; no two raw
\* values give the same integer and the integers given are exactly -16..64.
C20_IntImmedMap ==
  (pc = "decodeInstruction" /\ opArgs.fn = "decodeIntImmed") =>
    LET Int64(n) == IF n >= 0 THEN <<n, 0, 0, 0>>
                    ELSE <<65536 + n, 65535, 65535, 65535>>
        Signed(v) == IF v <= 192 THEN v - 128 ELSE 192 - v
        Raw == 128..208
    IN  /\ opArgs.Val \in Raw
        /\ Signed(opArgs.Val) \in -16..64
        /\ opArgs.Val <= 192 <=> Signed(opArgs.Val) >= 0
        /\ opRet = [k |-> "imm", rc |-> "", v |-> Int64(Signed(opArgs.Val))]
        /\ \A u \in Raw : decodeIntImmed(u) = opRet => u = opArgs.Val
        /\ {decodeIntImmed(u).v : u \in Raw} = {Int64(n) : n \in -16..64}
        /\ opSt = opBefore

\* the raw value 208 was decoded: the immediate is -16
C20_LowestInteger ==
  /\ pc = "decodeInstruction" /\ opArgs.fn = "decodeIntImmed"
  /\ opArgs.Val = 208
  /\ opRet.v = <<65520, 65535, 65535, 65535>>

\* C19: createSRegOperand returns, for a value V of an SGPR or TTMP class,
\* the register of the class at index V >> shift, where shift is 0 for the
\* 32-bit classes, 1 for the 64-bit classes and 2 for the classes of 96 to
\* 512 bits; a V that is not a multiple of 2^shift gets the same register
\* and a warning on the comment stream; the call fails exactly when
\* V >> shift is not below the number of registers of the class.
C19_SRegShift ==
  (pc = "decodeInstruction" /\ opArgs.fn = "createSRegOperand") =>
    LET Bits == 32 * ClassDwords(opArgs.RC)
        shift == IF Bits = 32 THEN 0 ELSE IF Bits = 64 THEN 1 ELSE 2
        Idx == opArgs.Val \div (2 ^ shift)
        Aligned == opArgs.Val % (2 ^ shift) = 0
        Fails == Idx >= NumRegs(opArgs.RC)
        Said == SubSeq(opSt.cs, Len(opBefore.cs) + 1, Len(opSt.cs))
    IN  /\ Bits \in {32, 64} \cup {b \in 96..512 : b % 32 = 0}
        /\ ~Fails => opRet = [k |-> "reg", rc |-> opArgs.RC, v |-> <<Idx>>]
        /\ Fails <=> opRet = InvalidOp
        /\ Aligned <=> \A i \in 1..Len(Said) : Said[i][1] # "Warning"
        /\ ~Fails => \A i \in 1..Len(Said) : Said[i][1] # "Error"
        /\ SubSeq(opSt.cs, 1, Len(opBefore.cs)) = opBefore.cs
        /\ [opSt EXCEPT !.cs = <<>>] = [opBefore EXCEPT !.cs = <<>>]

\* s3 asked of the 64-bit class: the pair at index 1 is returned, with a
\* warning
C19_MisalignedPair ==
  /\ pc = "decodeInstruction" /\ opArgs.fn = "createSRegOperand"
  /\ opArgs.RC = "SGPR_64" /\ opArgs.Val = 3
  /\ opRet = RegOp("SGPR_64", 1)
  /\ opSt.cs # <<>> /\ opSt.cs[Len(opSt.cs)][1] = "Warning"

\* C14: for one target, width, immediate width and flags, decodeSrcOp
\* returns for a field value other than the literal sentinel (low nine bits
\* 255) the operand it returns on a decoder that has decoded nothing, with
\* another window, and leaves the pending literal and the window alone; for
\* the literal sentinel the operand is the sentinel itself (mandatory
\* literal), the pending literal if there is one, and otherwise the next
\* word of the window, or an error when fewer than four bytes are left.
C14_OperandDeterministic ==
  (pc = "decodeInstruction" /\ opArgs.fn = "decodeSrcOp") =>
    LET Fresh == DState(0, FALSE, <<0, 0>>, I64(0), <<0, 0>>, 0)
        Members(st) == [st EXCEPT !.cs = <<>>]
        Alone(a) ==
          AtUnreachable(decodeSrcOp(a.Width, a.Val, a.MandatoryLiteral,
                                    a.ImmWidth, a.IsFP, Fresh),
                        a.Val % 256, Fresh).op
        Wide == opArgs.IsFP /\ opArgs.ImmWidth = 64
        Word == WordAt(opBefore.pat, opBefore.off)
    IN  IF opArgs.Val % 512 # 255
        THEN /\ opRet = Alone(opArgs)
             /\ Members(opSt) = Members(opBefore)
        ELSE IF opArgs.MandatoryLiteral
        THEN /\ opRet = ImmOp(<<255, 0, 0, 0>>)
             /\ Members(opSt) = Members(opBefore)
        ELSE IF opBefore.hasLit
        THEN /\ opRet = ImmOp(IF Wide THEN opBefore.lit64
                              ELSE <<opBefore.lit[1], opBefore.lit[2], 0, 0>>)
             /\ Members(opSt) = Members(opBefore)
        ELSE IF opBefore.max - opBefore.off < 4
        THEN /\ opRet = InvalidOp
             /\ Members(opSt) = Members(opBefore)
        ELSE /\ opRet = ImmOp(IF Wide THEN <<0, 0, Word[1], Word[2]>>
                              ELSE <<Word[1], Word[2], 0, 0>>)
             /\ opSt.hasLit /\ opSt.lit = Word
             /\ opSt.off = opBefore.off + 4

\* s1 is decoded behind an operand that read the literal: the register is
\* the one a decoder without a literal returns
C14_RegisterBehindLiteral ==
  /\ pc = "decodeInstruction" /\ opArgs.fn = "decodeSrcOp"
  /\ opCalls = 2 /\ opBefore.hasLit /\ opBefore.off = 8
  /\ opArgs.Val = 1 /\ opArgs.Width = "OPW32"
  /\ opRet = RegOp("SGPR_32", 1)

\* C18: decodeSrcOp resolves a 10-bit value by the first step that matches:
\* low nine bits 256..511 -> the register at value - 256 of the AGPR class
\* (bit 9 set) or the VGPR class of the width; else 0..SGPR_MAX -> an SGPR;
\* else the TTMP range -> a TTMP at value - range minimum; else 128..208 ->
\* an inline integer; else 240..248 -> an inline float; else 255 -> the
\* literal; else a named special register, or an error for a value that
\* names none.  SGPR_MAX is 101 below GFX10 and 105 from GFX10 on, the TTMP
\* range starts at 112 on VI and at 108 from GFX9 on, so 102..105 and
\* 108..111 reach the special registers only on the older targets.
C18_PriorityOrder ==
  (pc = "decodeInstruction" /\ opArgs.fn = "decodeSrcOp") =>
    LET V == opArgs.Val % 512
        W == opArgs.Width
        SMax == IF isGFX10Plus THEN 105 ELSE 101
        TMin == IF isGFX9Plus THEN 108 ELSE 112
        Shift(rc) == IF ClassDwords(rc) = 1 THEN 0
                     ELSE IF ClassDwords(rc) = 2 THEN 1 ELSE 2
        Reg(rc, i) == IF i < NumRegs(rc)
                      THEN opRet = [k |-> "reg", rc |-> rc, v |-> <<i>>]
                      ELSE opRet = InvalidOp
        Special == opRet = InvalidOp
                   \/ (opRet.k = "reg" /\ opRet.rc = "SPECIAL")
    IN  /\ IF V >= 256
           THEN Reg(IF opArgs.Val >= 512 THEN getAgprClassId(W)
                    ELSE getVgprClassId(W), V - 256)
           ELSE IF V <= SMax
           THEN Reg(getSgprClassId(W), V \div 2 ^ Shift(getSgprClassId(W)))
           ELSE IF TMin <= V /\ V <= 123
           THEN Reg(getTtmpClassId(W),
                    (V - TMin) \div 2 ^ Shift(getTtmpClassId(W)))
           ELSE IF 128 <= V /\ V <= 208
           THEN opRet = decodeIntImmed(V)
           ELSE IF 240 <= V /\ V <= 248
           THEN opRet = decodeFPImmed(opArgs.ImmWidth, V)
           ELSE IF V = 255
           THEN opRet = InvalidOp \/ opRet.k = "imm"
           ELSE Special
        /\ (V \in 102..105 /\ ~isGFX10Plus) => Special
        /\ (V \in 108..111 /\ ~isGFX9Plus) => Special
        /\ (V \in 102..105 /\ isGFX10Plus)
             => opRet.rc \in {getSgprClassId(W), ""}
        /\ (V \in 108..111 /\ isGFX9Plus)
             => opRet.rc \in {getTtmpClassId(W), ""}

\* C21 as stated: the inline float of a field value 240..248 is sized by the
\* width of the operand, so an operand of width 64 gets the double
\* precision pattern, one of width 32 the single precision pattern and one
\* of width 16 the half precision pattern.
C21_SizedByOperandWidth ==
  (/\ pc = "decodeInstruction" /\ opArgs.fn = "decodeSrcOp"
   /\ opArgs.Val % 512 \in 240..248) =>
    /\ opArgs.Width = "OPW64" => opRet = ImmOp(getInlineImmVal64(opArgs.Val % 512))
    /\ opArgs.Width = "OPW32" => opRet = ImmOp(getInlineImmVal32(opArgs.Val % 512))
    /\ opArgs.Width = "OPW16" => opRet = ImmOp(getInlineImmVal16(opArgs.Val % 512))

\* C21: a field value 240..248 decodes to the IEEE bit pattern of 0.5, -0.5,
\* 1, -1, 2, -2, 4, -4 or to the pattern of 1/(2*pi), in the precision the
\* immediate width of the operand's decoder names: half for 16, single for
\* 32 and for 0 (a decoder of registers only), double for 64, whatever the
\* register width of the operand; nothing is read and nothing is recorded.
C21_SizedByImmWidth ==
  (/\ pc = "decodeInstruction" /\ opArgs.fn = "decodeSrcOp"
   /\ opArgs.Val % 512 \in 240..248) =>
    LET V == opArgs.Val % 512
        Sign == (V - 240) % 2
        Exp == ((V - 240) \div 2) - 1
        Half == IF V = 248 THEN <<12568, 0, 0, 0>>
                ELSE <<32768 * Sign + 1024 * (15 + Exp), 0, 0, 0>>
        Single == IF V = 248 THEN <<63875, 15906, 0, 0>>
                  ELSE <<0, 32768 * Sign + 128 * (127 + Exp), 0, 0>>
        Double == IF V = 248 THEN <<51330, 28105, 24368, 16324>>
                  ELSE <<0, 0, 0, 32768 * Sign + 16 * (1023 + Exp)>>
    IN  /\ opArgs.ImmWidth \in {0, 16, 32, 64}
        /\ opRet.k = "imm"
        /\ opArgs.ImmWidth = 16 => opRet.v = Half
        /\ opArgs.ImmWidth \in {0, 32} => opRet.v = Single
        /\ opArgs.ImmWidth = 64 => opRet.v = Double
        /\ opSt = opBefore

\* decodeOperand_VS_64_Imm32 on the field 240: an operand of width 64 gets
\* the single precision 0.5
C21_SingleInWidth64 ==
  /\ pc = "decodeInstruction" /\ opArgs.fn = "decodeSrcOp"
  /\ opArgs.Width = "OPW64" /\ opArgs.ImmWidth = 32 /\ opArgs.Val = 240
  /\ opRet = ImmOp(<<0, 16128, 0, 0>>)

\* C22: a literal operand (field 255, no mandatory literal) that is decoded
\* is the literal word W of the instruction shifted into the high half,
\* W << 32, when the operand is a 64-bit float operand, and W itself
\* otherwise, whether or not an operand before it has read the literal.
C22_FP64LiteralShifted ==
  (/\ pc = "decodeInstruction" /\ opArgs.fn = "decodeSrcOp"
   /\ opArgs.Val % 512 = 255 /\ ~opArgs.MandatoryLiteral
   /\ opRet.k = "imm") =>
    LET W == WordAt(opSt.pat, 4)
    IN  opRet.v = IF opArgs.IsFP /\ opArgs.ImmWidth = 64
                  THEN <<0, 0, W[1], W[2]>>
                  ELSE <<W[1], W[2], 0, 0>>

\* C23: an operand field with no valid interpretation gives the invalid
\* operand, with an error on the comment stream: in the vector range an
\* index that is not below the number of registers of the class, and behind
\* the scalar, TTMP, inline constant and literal steps every value outside
\* the fixed set of the operand's width (the 32-bit set with M0 and null at
\* 124 and 125, swapped from GFX11 on; the 64-bit set, where the value of M0
\* is an error; no set for another width).  Every other field gives a valid
\* operand.
C23_InvalidOperand ==
  (pc = "decodeInstruction" /\ opArgs.fn = "decodeSrcOp") =>
    LET V == opArgs.Val % 512
        W == opArgs.Width
        Named(n) == [k |-> "reg", rc |-> "SPECIAL", v |-> <<RegId(n)>>]
        Set32 == (102..111) \cup (124..127) \cup (235..239) \cup (251..254)
        Set64 == {102, 104, 106, 108, 110, 126, 251, 252, 253}
                 \cup (235..239)
                 \cup {IF isGFX11Plus THEN 124 ELSE 125}
        Set == IF W \in {"OPW32", "OPW16"} THEN Set32
               ELSE IF W = "OPW64" THEN Set64 ELSE {}
        TMin == IF isGFX9Plus THEN 108 ELSE 112
        AtSpecial == /\ V < 256
                     /\ V > (IF isGFX10Plus THEN 105 ELSE 101)
                     /\ ~(TMin <= V /\ V <= 123)
                     /\ V \notin 128..208
                     /\ V \notin 240..248
                     /\ V # 255
        Said == SubSeq(opSt.cs, Len(opBefore.cs) + 1, Len(opSt.cs))
        Error == /\ opRet = InvalidOp
                 /\ Said # <<>>
                 /\ Said[Len(Said)][1] = "Error"
    IN  /\ V >= 256 =>
             LET rc == IF opArgs.Val >= 512 THEN getAgprClassId(W)
                       ELSE getVgprClassId(W)
             IN  IF V - 256 < NumRegs(rc) THEN opRet = RegOp(rc, V - 256)
                 ELSE Error
        /\ AtSpecial =>
             /\ IF V \in Set THEN opRet.k = "reg" /\ opRet.rc = "SPECIAL"
                ELSE Error
             /\ (W = "OPW32" /\ V = 124) =>
                  opRet = Named(IF isGFX11Plus THEN "SGPR_NULL" ELSE "M0")
             /\ (W = "OPW32" /\ V = 125) =>
                  opRet = Named(IF isGFX11Plus THEN "M0" ELSE "SGPR_NULL")
             /\ (W = "OPW64" /\ V \in {124, 125}) =>
                  opRet \in {Named("SGPR_NULL"), InvalidOp}
        /\ opRet.k \in {"reg", "imm", "inv"}

\* C24: after getInstruction, for every opcode with a vdst_in operand tied
\* to another operand, the operand at the vdst_in position is a register
\* equal to the tied operand's register: an absent one was inserted there
\* (one operand more), a present non-register or different register was
\* replaced (same count), one that agreed was left alone; applying the step
\* again changes nothing.
C24_TiedVDstIn ==
  pc = "returned"
    => LET VDstIn_Idx == getNamedOperandIdx(MI.opc, "vdst_in")
           Tied == TiedTo(MI.opc, VDstIn_Idx)
           Ran == {i \in 1..Len(passes) : passes[i] = "vdst_in"}
           After(i) == IF i < Len(passes) THEN snaps[i + 1] ELSE MI
           Step(B, A) ==
             /\ A.opc = B.opc
             /\ IF Len(B.ops) <= VDstIn_Idx
                THEN /\ Len(A.ops) = Len(B.ops) + 1
                     /\ A.ops = InsertAt(B.ops, VDstIn_Idx, B.ops[Tied + 1])
                ELSE /\ \/ ~isReg(B.ops[VDstIn_Idx + 1])
                        \/ B.ops[VDstIn_Idx + 1] # B.ops[Tied + 1]
                     /\ Len(A.ops) = Len(B.ops)
                     /\ A.ops = [B.ops EXCEPT
                                   ![VDstIn_Idx + 1] = B.ops[Tied + 1]]
       IN  (VDstIn_Idx # -1 /\ Tied # -1)
             => /\ Len(MI.ops) > VDstIn_Idx
                /\ isReg(MI.ops[VDstIn_Idx + 1])
                /\ isReg(MI.ops[Tied + 1])
                /\ MI.ops[VDstIn_Idx + 1] = MI.ops[Tied + 1]
                /\ \A i \in Ran : Step(snaps[i], After(i))
                /\ convertVDstIn(MI) = MI

\* a VOP3P DPP instruction whose vdst_in was the placeholder immediate 0:
\* it is now the destination register and the operand count is unchanged
C24_PlaceholderReplaced ==
  /\ pc = "returned" /\ Res = "Success"
  /\ \E i \in 1..Len(passes) :
       /\ passes[i] = "vdst_in"
       /\ LET VDstIn_Idx == getNamedOperandIdx(MI.opc, "vdst_in")
          IN  /\ Len(snaps[i].ops) > VDstIn_Idx
              /\ snaps[i].ops[VDstIn_Idx + 1] = Imm(0)
              /\ Len(MI.ops) = Len(snaps[i].ops)
              /\ isReg(MI.ops[VDstIn_Idx + 1])
              /\ MI.ops[VDstIn_Idx + 1] = MI.ops[1]

\* C25: the modifier reconstructions of the DPP forms (convertVOP3DPPInst,
\* convertVOP3PDPPInst, convertVOPCDPPInst, the DPP8 path) never change an
\* operand that is present: they only insert operands, only while the
\* operand count is below the schema length, and bit J of an inserted
\* op_sel (for packed forms also of op_sel_hi, neg_lo, neg_hi) equals the
\* corresponding bit of the decoded srcJ_modifiers operand; an inserted
\* dummy modifier is 0.
C25_ModifiersOnlyInserted ==
  \A n \in 1..Len(convs) :
    LET B == convs[n].from
        A == convs[n].to
        opc == B.opc
        RECURSIVE New(_, _, _)
        \* the positions of a that the operands of b, in order, do not fill
        New(b, a, k) ==
          IF a = <<>> THEN {}
          ELSE IF b # <<>> /\ Head(a) = Head(b)
          THEN New(Tail(b), Tail(a), k + 1)
          ELSE {k} \cup New(b, Tail(a), k + 1)
        Inserted == New(B.ops, A.ops, 1)
        IsVOP3P == "VOP3P" \in TSFlags(opc)
        Mod(J) ==
          LET OpIdx == getNamedOperandIdx(
                         opc, <<"src0_modifiers", "src1_modifiers",
                                "src2_modifiers">>[J + 1])
          IN  IF OpIdx = -1 THEN 0 ELSE getImmLow(A.ops[OpIdx + 1])
        Bit(op, J) == (getImmLow(op) \div (2 ^ J)) % 2
        FromMods(op, Mask) ==
          /\ op.k = "imm"
          /\ \A J \in 0..2 : Bit(op, J) = TestBit(Mod(J), Mask)
        Filled(p) ==
          LET Name == OperandNames(opc)[p]
              op == A.ops[p]
          IN  CASE Name = "op_sel" -> FromMods(op, 4)
                [] Name = "op_sel_hi" -> IsVOP3P /\ FromMods(op, 8)
                [] Name = "neg_lo" -> IsVOP3P /\ FromMods(op, 1)
                [] Name = "neg_hi" -> IsVOP3P /\ FromMods(op, 2)
                [] Name \in {"src0_modifiers", "src1_modifiers",
                             "src2_modifiers", "vdst_in"} -> op = Imm(0)
                [] Name = "old" -> op = NoRegOp
                [] OTHER -> FALSE
    IN  /\ A.opc = opc
        /\ Len(A.ops) - Cardinality(Inserted) = Len(B.ops)
        /\ Len(B.ops) >= DescNumOps(opc) => A = B
        /\ Len(A.ops) <= DescNumOps(opc)
        /\ Len(A.ops) = DescNumOps(opc) => \A p \in Inserted : Filled(p)

\* a packed DPP instruction left the cascade with op_sel_hi inserted from
\* modifiers of which one has its OP_SEL_1 bit set and the other has not
C25_PackedOpSelHi ==
  /\ pc = "returned" /\ Res = "Success"
  /\ \E n \in 1..Len(convs) :
       LET A == convs[n].to
           Idx(Name) == getNamedOperandIdx(A.opc, Name)
       IN  /\ "VOP3P" \in TSFlags(A.opc)
           /\ Len(convs[n].from.ops) < Len(A.ops)
           /\ Len(A.ops) = DescNumOps(A.opc)
           /\ TestBit(getImmLow(A.ops[Idx("src0_modifiers") + 1]), 8)
                # TestBit(getImmLow(A.ops[Idx("src1_modifiers") + 1]), 8)
           /\ getImmLow(A.ops[Idx("op_sel_hi") + 1]) \in {1, 2}

\* C26 as claimed: every elided-field restoration inserts zero at the schema
\* position of its field, except that an absent cache-policy operand of an
\* atomic-with-return opcode is inserted as GLC and a present one gets GLC
\* OR-ed in; a present cache-policy operand of a non-returning opcode is
\* untouched, and no restoration step runs when the status is Fail.
C26_ZeroButCachePolicy ==
  pc = "returned"
    => LET After(i) == IF i < Len(passes) THEN snaps[i + 1] ELSE MI
           Put(ops, Idx, v) ==
             [p \in 1..(Len(ops) + 1) |->
                IF p <= Idx THEN ops[p]
                ELSE IF p = Idx + 1 THEN v ELSE ops[p - 1]]
           \* the field Name, where the opcode has it, is put in as v
           Slot(ops, opc, Name, v) ==
             LET Idx == getNamedOperandIdx(opc, Name)
             IN  IF Idx = -1 THEN ops ELSE Put(ops, Idx, v)
           InRange(ops, opc, Name) ==
             getNamedOperandIdx(opc, Name) <= Len(ops)
           CachePolicy(B, A) ==
             LET CPolPos == getNamedOperandIdx(B.opc, "cpol")
                 Rtn == "IsAtomicRet" \in TSFlags(B.opc)
                 old == B.ops[CPolPos + 1]
             IN  IF CPolPos = -1 THEN A = B
                 ELSE IF Len(B.ops) <= CPolPos
                 THEN /\ Len(B.ops) = CPolPos
                      /\ A.ops = Put(B.ops, CPolPos,
                                     Imm(IF Rtn THEN 1 ELSE 0))
                 ELSE IF Rtn
                 THEN /\ A.ops = [B.ops EXCEPT
                                   ![CPolPos + 1] = A.ops[CPolPos + 1]]
                      /\ A.ops[CPolPos + 1].k = "imm"
                      /\ A.ops[CPolPos + 1].v[1] % 2 = 1
                      /\ A.ops[CPolPos + 1].v[1] \div 2 = old.v[1] \div 2
                      /\ \A w \in 2..4 : A.ops[CPolPos + 1].v[w] = old.v[w]
                 ELSE A = B
           Zero(B, A, Names) ==
             /\ \A k \in 1..Len(Names) : InRange(B.ops, B.opc, Names[k])
             /\ A.ops = IF Len(Names) = 2
                        THEN Slot(Slot(B.ops, B.opc, Names[1], Imm(0)),
                                   B.opc, Names[2], Imm(0))
                        ELSE IF Len(Names) = 1
                        THEN Slot(B.ops, B.opc, Names[1], Imm(0))
                        ELSE B.ops
           Step(p, B, A) ==
             CASE p = "cpol" -> CachePolicy(B, A)
               [] p \in {"src2_modifiers", "gds", "tfe", "swz"} ->
                    Zero(B, A, <<p>>)
               [] p = "convertEXPInst" ->
                    Zero(B, A, IF hasFeature("GFX11Insts")
                               THEN <<"vm", "compr">> ELSE <<>>)
               [] p = "convertSDWAInst" ->
                    Zero(B, A,
                         IF hasFeature("GFX9") \/ hasFeature("GFX10")
                         THEN IF hasNamedOperand(B.opc, "sdst")
                              THEN <<"clamp">> ELSE <<>>
                         ELSE IF hasFeature("VolcanicIslands")
                         THEN IF hasNamedOperand(B.opc, "sdst")
                              THEN <<"sdst">> ELSE <<"omod">>
                         ELSE <<>>)
               [] OTHER -> TRUE
       IN  /\ \A i \in 1..Len(passes) :
                /\ After(i).opc = snaps[i].opc \/ passes[i] = "convertMIMGInst"
                /\ Step(passes[i], snaps[i], After(i))
           /\ Res = "Fail"
                => \A i \in 1..Len(passes) :
                     passes[i] \in {"NSA", "convertMIMGInst"}
                     \/ \E j \in (i + 1)..Len(passes) : passes[j] = "NSA"


\* C26, amended: every elided-field restoration inserts its default at the
\* schema position of the field. The default is zero, with three
\* exceptions: an absent cache-policy operand of an atomic-with-return
\* opcode is inserted as GLC; a present one gets GLC OR-ed in with its other
\* bits unchanged; the sdst of an SDWA compare on a VolcanicIslands
\* subtarget is inserted as the register VCC. A present cache-policy operand
\* of a non-returning opcode is untouched, and no restoration step runs
\* when the status is Fail.
C26_RestoredDefaults ==
  pc = "returned"
    => LET After(i) == IF i < Len(passes) THEN snaps[i + 1] ELSE MI
           Put(ops, Idx, v) ==
             [p \in 1..(Len(ops) + 1) |->
                IF p <= Idx THEN ops[p]
                ELSE IF p = Idx + 1 THEN v ELSE ops[p - 1]]
           \* the field Name, where the opcode has it, is put in as v
           Slot(ops, opc, Name, v) ==
             LET Idx == getNamedOperandIdx(opc, Name)
             IN  IF Idx = -1 THEN ops ELSE Put(ops, Idx, v)
           InRange(ops, opc, Name) ==
             getNamedOperandIdx(opc, Name) <= Len(ops)
           CachePolicy(B, A) ==
             LET CPolPos == getNamedOperandIdx(B.opc, "cpol")
                 Rtn == "IsAtomicRet" \in TSFlags(B.opc)
                 old == B.ops[CPolPos + 1]
             IN  IF CPolPos = -1 THEN A = B
                 ELSE IF Len(B.ops) <= CPolPos
                 THEN /\ Len(B.ops) = CPolPos
                      /\ A.ops = Put(B.ops, CPolPos,
                                     Imm(IF Rtn THEN 1 ELSE 0))
                 ELSE IF Rtn
                 THEN /\ A.ops = [B.ops EXCEPT
                                   ![CPolPos + 1] = A.ops[CPolPos + 1]]
                      /\ A.ops[CPolPos + 1].k = "imm"
                      /\ A.ops[CPolPos + 1].v[1] % 2 = 1
                      /\ A.ops[CPolPos + 1].v[1] \div 2 = old.v[1] \div 2
                      /\ \A w \in 2..4 : A.ops[CPolPos + 1].v[w] = old.v[w]
                 ELSE A = B
           Zero(B, A, Names) ==
             /\ \A k \in 1..Len(Names) : InRange(B.ops, B.opc, Names[k])
             /\ A.ops = IF Len(Names) = 2
                        THEN Slot(Slot(B.ops, B.opc, Names[1], Imm(0)),
                                   B.opc, Names[2], Imm(0))
                        ELSE IF Len(Names) = 1
                        THEN Slot(B.ops, B.opc, Names[1], Imm(0))
                        ELSE B.ops
           VCC(B, A) ==
             /\ InRange(B.ops, B.opc, "sdst")
             /\ A.ops = Slot(B.ops, B.opc, "sdst",
                             createRegOperandId(RegId("VCC")))
           Step(p, B, A) ==
             CASE p = "cpol" -> CachePolicy(B, A)
               [] p \in {"src2_modifiers", "gds", "tfe", "swz"} ->
                    Zero(B, A, <<p>>)
               [] p = "convertEXPInst" ->
                    Zero(B, A, IF hasFeature("GFX11Insts")
                               THEN <<"vm", "compr">> ELSE <<>>)
               [] p = "convertSDWAInst" ->
                    IF hasFeature("GFX9") \/ hasFeature("GFX10")
                    THEN Zero(B, A, IF hasNamedOperand(B.opc, "sdst")
                                    THEN <<"clamp">> ELSE <<>>)
                    ELSE IF hasFeature("VolcanicIslands")
                    THEN IF hasNamedOperand(B.opc, "sdst") THEN VCC(B, A)
                         ELSE Zero(B, A, <<"omod">>)
                    ELSE Zero(B, A, <<>>)
               [] OTHER -> TRUE
       IN  /\ \A i \in 1..Len(passes) :
                /\ After(i).opc = snaps[i].opc \/ passes[i] = "convertMIMGInst"
                /\ Step(passes[i], snaps[i], After(i))
           /\ Res = "Fail"
                => \A i \in 1..Len(passes) :
                     passes[i] \in {"NSA", "convertMIMGInst"}
                     \/ \E j \in (i + 1)..Len(passes) : passes[j] = "NSA"

\* an SDWA compare decoded for VolcanicIslands: sdst was inserted as VCC
C26_ImplicitVCC ==
  /\ pc = "returned" /\ Res = "Success"
  /\ passes = <<"convertSDWAInst">>
  /\ hasFeature("VolcanicIslands")
  /\ getNamedOperandIdx(MI.opc, "sdst") = 0
  /\ Len(MI.ops) = Len(snaps[1].ops) + 1
  /\ MI.ops[1] = createRegOperandId(RegId("VCC"))
  /\ MI.ops[1] # Imm(0)

C28_EveryCountEmitted ==
  (/\ pc = "idle" /\ kdStatus \in {"Success", "Fail"}
   /\ Symbol.Type = "STT_OBJECT" /\ kdLen = 64 /\ KdAddress % 64 = 0) =>
    LET Bit(b, w) == IF b \in kd THEN w ELSE 0
        G == Bit(390, 1) + Bit(391, 2) + Bit(392, 4) + Bit(393, 8)
        Lines(d) == {i \in 1..Len(kdOut) : kdOut[i].d = d}
        One(d, n) == /\ Cardinality(Lines(d)) = 1
                     /\ \A i \in Lines(d) :
                          kdOut[i].v = <<n, 0>> /\ ~kdOut[i].cm
        Decodes(r) == r.Status = "Success"
    IN  Decodes(decodeKernelDescriptor(<<"k">>, kd \ (390..393), 64,
                                       KdAddress, kdEntry))
          => /\ kdStatus = "Success"
             /\ One(".amdhsa_next_free_sgpr", (G + 1) * 8)
             /\ One(".amdhsa_reserve_vcc", 0)
             /\ One(".amdhsa_reserve_xnack_mask", 0)
             /\ IF hasArchitectedFlatScratch
                THEN Lines(".amdhsa_reserve_flat_scratch") = {}
                ELSE One(".amdhsa_reserve_flat_scratch", 0)

\* C28, amended: before GFX10, for every granulated SGPR count G of a
\* kernel descriptor that decodes with G = 0, the decoder emits
\* .amdhsa_next_free_sgpr (G + 1) * 8; on GFX10 and later only G = 0 decodes
\* (next_free_sgpr 8) and any other G makes the decode Fail with nothing
\* emitted. Whenever the decode succeeds the reservation directives are
\* emitted with their defaults: .amdhsa_reserve_vcc 0,
\* .amdhsa_reserve_xnack_mask 0 and, unless the target has architected flat
\* scratch, .amdhsa_reserve_flat_scratch 0.
C28_NextFreeSGPR ==
  (/\ pc = "idle" /\ kdStatus \in {"Success", "Fail"}
   /\ Symbol.Type = "STT_OBJECT" /\ kdLen = 64 /\ KdAddress % 64 = 0) =>
    LET Bit(b, w) == IF b \in kd THEN w ELSE 0
        G == Bit(390, 1) + Bit(391, 2) + Bit(392, 4) + Bit(393, 8)
        Lines(d) == {i \in 1..Len(kdOut) : kdOut[i].d = d}
        One(d, n) == /\ Cardinality(Lines(d)) = 1
                     /\ \A i \in Lines(d) :
                          kdOut[i].v = <<n, 0>> /\ ~kdOut[i].cm
        Decodes(r) == r.Status = "Success"
        Emitted ==
          /\ One(".amdhsa_next_free_sgpr", (G + 1) * 8)
          /\ One(".amdhsa_reserve_vcc", 0)
          /\ One(".amdhsa_reserve_xnack_mask", 0)
          /\ IF hasArchitectedFlatScratch
             THEN Lines(".amdhsa_reserve_flat_scratch") = {}
             ELSE One(".amdhsa_reserve_flat_scratch", 0)
    IN  /\ kdStatus = "Success" => Emitted /\ (isGFX10Plus => G = 0)
        /\ (isGFX10Plus /\ G # 0) => kdStatus = "Fail" /\ kdOut = <<>>
        /\ (~isGFX10Plus
            /\ Decodes(decodeKernelDescriptor(<<"k">>, kd \ (390..393), 64,
                                              KdAddress, kdEntry)))
             => kdStatus = "Success"

\* a descriptor with G = 4 decoded before GFX10: next_free_sgpr is 40 and
\* the flat scratch reservation is printed as 0
C28_FortySGPRs ==
  /\ pc = "idle" /\ kdStatus = "Success" /\ ~isGFX10Plus
  /\ kd \cap (390..393) = {392}
  /\ ~hasArchitectedFlatScratch
  /\ \E i \in 1..Len(kdOut) :
       kdOut[i].d = ".amdhsa_next_free_sgpr" /\ kdOut[i].v = <<40, 0>>
  /\ \E i \in 1..Len(kdOut) :
       kdOut[i].d = ".amdhsa_reserve_flat_scratch" /\ kdOut[i].v = <<0, 0>>

\* C30: the output of decodeKernelDescriptor is all or nothing: text is
\* written to the output stream only when every field decoded without
\* Fail, and then it is the buffered directives framed by the
\* .amdhsa_kernel line and the .end_amdhsa_kernel line; when a field
\* reports Fail, also after earlier fields have buffered directive lines,
\* nothing at all is written.
C30_AllOrNothing ==
  (pc = "idle" /\ kdStatus # "none") =>
    LET n == Len(kdTrace)
        Frame(d) == {i \in 1..Len(kdOut) : kdOut[i].d = d}
    IN  IF kdStatus = "Success"
        THEN /\ n >= 1
             /\ \A i \in 1..n : kdTrace[i].Status = "Success"
             /\ Len(kdOut) = kdTrace[n].lines + 1
             /\ Frame(".amdhsa_kernel") = {1}
             /\ kdOut[1].name = drop_back(Symbol.Name, 3)
             /\ Frame(".end_amdhsa_kernel") = {Len(kdOut)}
        ELSE kdOut = <<>>

\* COMPUTE_PGM_RSRC2 reported Fail after COMPUTE_PGM_RSRC1 and the fields
\* before it had buffered their directives: nothing was written
C30_BufferedLinesDropped ==
  /\ pc = "idle" /\ kdStatus = "Fail"
  /\ Len(kdTrace) = 9 /\ kdTrace[9].off = 52
  /\ kdTrace[8].Status = "Success" /\ kdTrace[8].lines > 10
  /\ kdTrace[9].lines >= kdTrace[8].lines
  /\ kdOut = <<>>

\* C29: within one decode attempt the trailing literal word is consumed at
\* most once: the first non-deferred literal operand (field 255) reads 4
\* bytes and sets the pending literal, every later one returns the stored
\* value without consuming bytes, and a deferred request (MandatoryLiteral)
\* consumes nothing and leaves the pending literal untouched; with fewer
\* than 4 bytes left at the first read an error operand is returned and
\* neither the window nor the pending literal changes.
C29_LiteralReadOnce ==
  pc = "decodeInstruction" =>
    LET Start == 4
        Word == WordAt(opSt.pat, Start)
        Window(st) == <<st.off, st.max, st.pat>>
        Pending(st) == <<st.hasLit, st.lit, st.lit64>>
        IsLiteral == opArgs.fn = "decodeSrcOp" /\ opArgs.Val % 512 = 255
        Wide == opArgs.IsFP /\ opArgs.ImmWidth = 64
    IN  /\ opSt.off = IF opSt.hasLit THEN Start + 4 ELSE Start
        /\ opSt.hasLit => opSt.lit = Word
        /\ (opCalls > 0 /\ ~IsLiteral)
             => Window(opSt) = Window(opBefore)
                /\ Pending(opSt) = Pending(opBefore)
        /\ (opCalls > 0 /\ IsLiteral) =>
             IF opArgs.MandatoryLiteral
             THEN /\ opRet = Imm(EncValues.LITERAL_CONST)
                  /\ opSt = opBefore
             ELSE IF opBefore.hasLit
             THEN /\ opRet = ImmOp(IF Wide THEN opBefore.lit64
                                   ELSE ZExt32(opBefore.lit))
                  /\ opSt = opBefore
             ELSE IF opBefore.max - opBefore.off < 4
             THEN /\ opRet = InvalidOp
                  /\ Window(opSt) = Window(opBefore)
                  /\ Pending(opSt) = Pending(opBefore)
             ELSE /\ opRet.k = "imm"
                  /\ opSt.off = opBefore.off + 4
                  /\ opSt.hasLit /\ opSt.lit = Word

\* the second literal operand of an attempt: the first call read the four
\* bytes, this one returned the stored word and read nothing
C29_SecondLiteralStored ==
  /\ pc = "decodeInstruction" /\ opCalls = 2
  /\ opArgs.fn = "decodeSrcOp" /\ opArgs.Val % 512 = 255
  /\ ~opArgs.MandatoryLiteral /\ ~(opArgs.IsFP /\ opArgs.ImmWidth = 64)
  /\ opBefore.hasLit /\ opBefore.off = 8 /\ opBefore.max = 8
  /\ opSt = opBefore
  /\ opRet = ImmOp(ZExt32(WordAt(opSt.pat, 4)))

=============================================================================
